---- MODULE Spec2Model ----
(***************************************************************************)
(* RateCaster SDK (src/src/index.ts): network binding, identifier          *)
(* canonicalisation, contract writes with fees, index reads.               *)
(*                                                                         *)
(* Strings whose characters the code inspects (identifiers, names, URLs)   *)
(* are sequences of one-character strings; opaque strings (addresses,      *)
(* endpoints, message fragments) are TLA+ strings.                         *)
(***************************************************************************)
EXTENDS Integers, Sequences, FiniteSets, Bags, TLC

VARIABLES
    provider,      \* this.provider
    chainConfig,   \* this.chainConfig: <<ChainInfo>> or Undefined
    contract,      \* this.contract: <<[address, runner]>> or Undefined
    initialized,   \* this.initialized: the promise made by the constructor
    initTask,      \* the constructor's initialize() call
    rebind,        \* the setProvider() call in flight or last finished
    nRebinds,      \* setProvider calls made so far
    op,            \* the caller's public operation in flight or last finished
    nOps,          \* public operations invoked so far
    fees,          \* per network: the contract's dappRatingFee / dappRegistrationFee
    nFeeChanges,   \* administrative fee changes made so far
    index,         \* per network: the rating records of the index, oldest first
    netCalls,      \* provider.getNetwork() calls issued so far
    regIn,         \* the dApp fields the caller registers with
    cin,           \* canonicalisation: the identifier supplied
    cop,           \* canonicalisation: the operation whose expression is applied
    cout,          \* canonicalisation: <<key>> once applied to cin
    cout2,         \* canonicalisation: <<key>> once applied to the key again
    allDapps,      \* the registration records contract.getAllDapps() returns
    socket         \* provider_socket, contract_socket, reviewListener and the
                   \* listeners the websocket contracts hold

vars == <<provider, chainConfig, contract, initialized, initTask, rebind, nRebinds,
          op, nOps, fees, nFeeChanges, index, netCalls, regIn, cin, cop, cout, cout2,
          allDapps, socket>>

bindingVars == <<provider, chainConfig, contract, initialized, initTask, rebind,
                 nRebinds, netCalls>>
chainVars == <<fees, nFeeChanges, index>>
\* What is fixed when the instance is constructed.
canonVars == <<regIn, cin, cop, cout, cout2, allDapps>>

\* An absent value (undefined, null) is the empty sequence, a present one <<v>>.
Undefined == << >>
Defined(v) == <<v>>

(***************************************************************************)
(* Character strings                                                       *)
(***************************************************************************)
Rep(c, n) == [i \in 1..n |-> c]

StartsWith(s, prefix) ==
    /\ Len(s) >= Len(prefix)
    /\ \A i \in 1..Len(prefix) : s[i] = prefix[i]

Digits == {"0", "1", "2", "3", "4", "5", "6", "7", "8", "9"}
LowerHex == {"a", "b", "c", "d", "e", "f"}
UpperHex == {"A", "B", "C", "D", "E", "F"}

\* ethers.isHexString(value) without a length: /^0x[0-9A-Fa-f]*$/
isHexStringLowerOnly(value) ==
    /\ Len(value) >= 2
    /\ value[1] = "0"
    /\ value[2] = "x"
    /\ \A i \in 3..Len(value) : value[i] \in Digits \cup LowerHex

isHexString(value) ==
    /\ Len(value) >= 2
    /\ value[1] = "0"
    /\ value[2] = "x"
    /\ \A i \in 3..Len(value) : value[i] \in Digits \cup LowerHex \cup UpperHex

\* The code points of the characters the model's strings are made of.
CharCodes ==
    <<  <<"-", 45>>, <<".", 46>>, <<"/", 47>>, <<"0", 48>>, <<"1", 49>>, <<"9", 57>>,
        <<":", 58>>, <<"A", 65>>, <<"F", 70>>, <<"X", 88>>, <<"a", 97>>, <<"c", 99>>,
        <<"d", 100>>, <<"e", 101>>, <<"f", 102>>, <<"g", 103>>, <<"h", 104>>,
        <<"l", 108>>, <<"m", 109>>, <<"o", 111>>, <<"p", 112>>, <<"r", 114>>, <<"s", 115>>,
        <<"t", 116>>, <<"x", 120>>, <<"y", 121>>, <<"z", 122>> >>

CharCode(c) ==
    LET i == CHOOSE j \in 1..Len(CharCodes) : CharCodes[j][1] = c
    IN  CharCodes[i][2]

\* ethers.toUtf8Bytes: the characters used are ASCII, one byte each.
toUtf8Bytes(str) == [i \in 1..Len(str) |-> CharCode(str[i])]

HexChars == <<"0", "1", "2", "3", "4", "5", "6", "7", "8", "9",
              "a", "b", "c", "d", "e", "f">>

\* ethers.keccak256: a fixed-size digest of the bytes, written as 0x and 64
\* lower-case hex digits. The digest is a stand-in that keeps what the SDK
\* relies on: it is a function of the bytes alone, its output has the
\* 66-character form, and inputs of different length or content get different
\* digests. Lane 0 holds the length, lane k folds bytes k, k + 31 and k + 62.
keccak256(bytes) ==
    LET n == Len(bytes)
        at(i) == IF i <= n THEN bytes[i] ELSE 0
        lane(k) == IF k = 0
                   THEN n % 256
                   ELSE (at(k) + 3 * at(k + 31) + 5 * at(k + 62)) % 256
        digit(j) == IF j % 2 = 1
                    THEN lane((j - 1) \div 2) \div 16
                    ELSE lane((j - 1) \div 2) % 16
    IN  <<"0", "x">> \o [j \in 1..64 |-> HexChars[digit(j) + 1]]

(***************************************************************************)
(* The identifier handed to the contract, as each operation computes it    *)
(***************************************************************************)
submitReview_dappIdBytes32(dappId) ==
    IF isHexString(dappId) /\ Len(dappId) = 66
    THEN dappId
    ELSE keccak256(toUtf8Bytes(dappId))

hasUserRatedProject_projectIdBytes32(projectId) ==
    IF isHexString(projectId) /\ Len(projectId) = 66
    THEN projectId
    ELSE keccak256(toUtf8Bytes(projectId))

getProjectRatingCount_projectIdBytes32(projectId) ==
    IF isHexString(projectId) /\ Len(projectId) = 66
    THEN projectId
    ELSE keccak256(toUtf8Bytes(projectId))

updateDapp_dappIdBytes32(dappId) ==
    IF isHexString(dappId) /\ Len(dappId) = 66
    THEN dappId
    ELSE keccak256(toUtf8Bytes(dappId))

deleteDapp_dappIdBytes32(dappId) ==
    IF isHexString(dappId) /\ Len(dappId) = 66
    THEN dappId
    ELSE keccak256(toUtf8Bytes(dappId))

getDapp_dappIdBytes32_raw(dappId) == dappId

getDapp_dappIdBytes32(dappId) ==
    IF isHexString(dappId) /\ Len(dappId) = 66
    THEN dappId
    ELSE keccak256(toUtf8Bytes(dappId))

isDappRegistered_dappIdBytes32_noLength(dappId) ==
    IF isHexString(dappId) THEN dappId ELSE keccak256(toUtf8Bytes(dappId))

isDappRegistered_dappIdBytes32(dappId) ==
    IF isHexString(dappId) /\ Len(dappId) = 66
    THEN dappId
    ELSE keccak256(toUtf8Bytes(dappId))

\* The operations that hand an identifier to the contract.
IdOps == {"submitReview", "hasUserRatedProject", "getProjectRatingCount",
          "updateDapp", "deleteDapp", "getDapp", "isDappRegistered"}

dappIdBytes32Of(kind, id) ==
    CASE kind = "submitReview" -> submitReview_dappIdBytes32(id)
      [] kind = "hasUserRatedProject" -> hasUserRatedProject_projectIdBytes32(id)
      [] kind = "getProjectRatingCount" -> getProjectRatingCount_projectIdBytes32(id)
      [] kind = "updateDapp" -> updateDapp_dappIdBytes32(id)
      [] kind = "deleteDapp" -> deleteDapp_dappIdBytes32(id)
      [] kind = "getDapp" -> getDapp_dappIdBytes32(id)
      [] kind = "isDappRegistered" -> isDappRegistered_dappIdBytes32(id)

(***************************************************************************)
(* Identifiers                                                             *)
(***************************************************************************)
MyDapp == <<"m", "y", "-", "d", "a", "p", "p">>
OtherDapp == <<"o", "t", "h", "e", "r", "-", "d", "a", "p", "p">>
ExampleUrl == <<"h", "t", "t", "p", "s", ":", "/", "/", "e", "x", "a", "m", "p", "l", "e",
                ".", "c", "o", "m">>

\* Identifiers around the boundary of the 66-character key form.
ShapedIds ==
    { pre \o Rep(c, n) \o suf :
        pre \in {<< >>, <<"0", "x">>, <<"0", "X">>, <<"x", "0">>},
        c \in {"a", "F", "0", "g"},
        n \in {0, 61, 62, 63, 64},
        suf \in {<< >>, <<"9">>, <<"z">>} }

CanonInputs == (ShapedIds \cup {MyDapp, OtherDapp, ExampleUrl}) \ {<< >>}

\* The hex text of a bytes32 value as the contract and the index hold it.
ToLower(s) ==
    [i \in 1..Len(s) |->
        CASE s[i] = "A" -> "a" [] s[i] = "B" -> "b" [] s[i] = "C" -> "c"
          [] s[i] = "D" -> "d" [] s[i] = "E" -> "e" [] s[i] = "F" -> "f"
          [] OTHER -> s[i]]

MyDappKey == keccak256(toUtf8Bytes(MyDapp))
UpperKey == <<"0", "x">> \o Rep("F", 64)
EmptyId == << >>

\* The identifiers the caller passes to the public operations.
MainIds == {MyDapp, MyDappKey, UpperKey, EmptyId}

\* The identifiers the caller passes where the fee is what is looked at.
WriteIds == {MyDapp, EmptyId}

(***************************************************************************)
(* Bounds                                                                  *)
(***************************************************************************)
MaxOps == 3          \* public operations the caller invokes in one behaviour
MaxRebinds == 1      \* setProvider calls in one behaviour
MaxFeeChanges == 1   \* administrative fee changes in one behaviour
MaxIndex == 2        \* rating records the index of one network holds
MaxRatings == 3      \* rating records an index starts with where statistics are looked at
MaxDapps == 2        \* registration records contract.getAllDapps() returns

(***************************************************************************)
(* Network registry (src/src/constants.ts)                                 *)
(***************************************************************************)
CHAIN_CONFIGS ==
    137 :> [chainId |-> 137,
            name |-> "Polygon",
            graphqlUrl |-> "pol_mainnet/api",
            contractAddress |-> "0xC876B28B3CD093402Ed73D85E3d21752a7D30A76",
            explorer |-> "https://polygonscan.com"]
    @@
    80002 :> [chainId |-> 80002,
              name |-> "Polygon Amoy",
              graphqlUrl |-> "pol_amoy/version/0.0.3/api",
              contractAddress |-> "0x9500e6B9CdC0a934abD7Ed496Bf10AC0B1363CDA",
              explorer |-> "https://amoy.polygonscan.com/"]

Networks == DOMAIN CHAIN_CONFIGS

\* CHAIN_CONFIGS[chainId]: a missing key reads as undefined.
ChainConfigLookup(chainId) ==
    IF chainId \in DOMAIN CHAIN_CONFIGS THEN Defined(CHAIN_CONFIGS[chainId]) ELSE Undefined

(***************************************************************************)
(* The connections the caller can hand over                                *)
(***************************************************************************)
Providers == {"p137", "p80002", "p1", "pNull", "pDown"}

\* What provider.getNetwork() settles with.
GetNetwork(p) ==
    CASE p = "p137" -> [ok |-> TRUE, network |-> Defined([chainId |-> 137]), msg |-> << >>]
      [] p = "p80002" -> [ok |-> TRUE, network |-> Defined([chainId |-> 80002]), msg |-> << >>]
      [] p = "p1" -> [ok |-> TRUE, network |-> Defined([chainId |-> 1]), msg |-> << >>]
      [] p = "pNull" -> [ok |-> TRUE, network |-> Undefined, msg |-> << >>]
      [] p = "pDown" -> [ok |-> FALSE, network |-> Undefined,
                         msg |-> <<"could not detect network">>]

\* The network a connection's calls reach.
NetworkOf(p) ==
    CASE p = "p137" -> 137
      [] p = "p80002" -> 80002
      [] p = "p1" -> 1
      [] OTHER -> 0

Err(msg) == [ok |-> FALSE, msg |-> msg, value |-> Undefined]
Val(v) == [ok |-> TRUE, msg |-> << >>, value |-> v]
NoOutcome == [ok |-> TRUE, msg |-> << >>, value |-> Undefined]

TypeErrorUndefined == <<"Cannot read properties of undefined">>

Pending == [state |-> "pending", msg |-> << >>]
Fulfilled == [state |-> "fulfilled", msg |-> << >>]
Rejected(msg) == [state |-> "rejected", msg |-> msg]

(***************************************************************************)
(* The websocket side: this.provider_socket (given or not),                *)
(* this.contract_socket (the n-th contract made over it, with its          *)
(* address), this.reviewListener (the n-th listener made, or null) and the *)
(* listeners the websocket contracts hold: <<contract, address, listener>>.*)
(* stopped: stopListening() has completed and listenToReviews has not      *)
(* subscribed since; calledAfterStop: a callback has run in between.       *)
(***************************************************************************)
NewSocket(provider_socket) ==
    [provider_socket |-> provider_socket,
     contract_socket |-> Undefined, nContracts |-> 0,
     reviewListener |-> Undefined, nListeners |-> 0,
     listeners |-> {},
     stopped |-> FALSE, invoked |-> {}, calledAfterStop |-> FALSE]

\* if (this.provider_socket) this.contract_socket = new Contract(address, ABI, this.provider_socket)
initialize_contract_socket(address) ==
    IF socket.provider_socket
    THEN [socket EXCEPT
            !.contract_socket = Defined([id |-> socket.nContracts + 1, address |-> address]),
            !.nContracts = @ + 1]
    ELSE socket

(***************************************************************************)
(* initialize(): the part after `await getNetwork(this.provider)`.         *)
(* q is the connection the query was sent to; the fields are read and      *)
(* written as they are when the answer arrives.                            *)
(***************************************************************************)
initialize_resume(q) ==
    LET ans == GetNetwork(q) IN
    IF ~ans.ok
    THEN [result |-> Err(ans.msg), chainConfig |-> chainConfig, contract |-> contract,
          socket |-> socket]
    ELSE IF ans.network = Undefined
    THEN [result |-> Err(<<"Failed to get network from provider">>),
          chainConfig |-> chainConfig, contract |-> contract, socket |-> socket]
    ELSE LET chainId == ans.network[1].chainId
             cfg == ChainConfigLookup(chainId)
         IN  IF cfg = Undefined
             THEN [result |-> Err(<<"Configuration not found for chain: ",
                                    ToString(chainId)>>),
                   chainConfig |-> cfg, contract |-> contract, socket |-> socket]
             ELSE [result |-> Val(Undefined),
                   chainConfig |-> cfg,
                   contract |-> Defined([address |-> cfg[1].contractAddress,
                                         runner |-> provider]),
                   socket |-> initialize_contract_socket(cfg[1].contractAddress)]

\* The constructor's initialize() settles; its promise is this.initialized.
InitializeSettles ==
    /\ initTask.pc = "getNetwork"
    /\ LET r == initialize_resume(initTask.provider) IN
        /\ chainConfig' = r.chainConfig
        /\ contract' = r.contract
        /\ socket' = r.socket
        /\ initialized' = IF r.result.ok THEN Fulfilled ELSE Rejected(r.result.msg)
    /\ initTask' = [initTask EXCEPT !.pc = "done"]
    /\ UNCHANGED <<provider, rebind, nRebinds, netCalls, op, nOps>>
    /\ UNCHANGED chainVars
    /\ UNCHANGED canonVars

(***************************************************************************)
(* setProvider(newProvider)                                                *)
(***************************************************************************)
\* before: the fields as they were when setProvider was called, and whether
\* the constructor's initialize() had settled by then.
BindingNow ==
    [provider |-> provider, chainConfig |-> chainConfig, contract |-> contract,
     settled |-> (initTask.pc = "done")]

IdleRebind ==
    [pc |-> "idle", newProvider |-> "none", out |-> NoOutcome,
     before |-> [provider |-> "none", chainConfig |-> Undefined, contract |-> Undefined,
                 settled |-> FALSE]]

\* await newProvider.getNetwork()
SetProviderCall(newProvider) ==
    /\ nRebinds < MaxRebinds
    /\ rebind.pc \in {"idle", "done"}
    /\ nRebinds' = nRebinds + 1
    /\ netCalls' = netCalls + 1
    /\ rebind' = [pc |-> "probe", newProvider |-> newProvider, out |-> NoOutcome,
                  before |-> BindingNow]
    /\ UNCHANGED <<provider, chainConfig, contract, initialized, initTask, op, nOps>>
    /\ UNCHANGED chainVars
    /\ UNCHANGED canonVars
    /\ UNCHANGED socket

\* this.provider = newProvider; await this.initialize()
SetProviderProbed ==
    /\ rebind.pc = "probe"
    /\ LET ans == GetNetwork(rebind.newProvider) IN
        IF ans.ok
        THEN /\ provider' = rebind.newProvider
             /\ netCalls' = netCalls + 1
             /\ rebind' = [rebind EXCEPT !.pc = "initialize"]
        ELSE /\ rebind' = [rebind EXCEPT !.pc = "done",
                              !.out = Err(<<"Failed to set provider: ">> \o ans.msg)]
             /\ UNCHANGED <<provider, netCalls>>
    /\ UNCHANGED <<chainConfig, contract, initialized, initTask, nRebinds, op, nOps>>
    /\ UNCHANGED chainVars
    /\ UNCHANGED canonVars
    /\ UNCHANGED socket

\* initialize() settles inside setProvider; this.initialized is not assigned.
SetProviderInitialized ==
    /\ rebind.pc = "initialize"
    /\ LET r == initialize_resume(rebind.newProvider) IN
        /\ chainConfig' = r.chainConfig
        /\ contract' = r.contract
        /\ socket' = r.socket
        /\ rebind' = [rebind EXCEPT
                        !.pc = "done",
                        !.out = IF r.result.ok THEN Val(Undefined)
                                ELSE Err(<<"Failed to set provider: ">> \o r.result.msg)]
    /\ UNCHANGED <<provider, initialized, initTask, nRebinds, netCalls, op, nOps>>
    /\ UNCHANGED chainVars
    /\ UNCHANGED canonVars

\* A binding is being resolved: an initialize() or a setProvider() is in flight.
Resolving == initTask.pc # "done" \/ rebind.pc \in {"probe", "initialize"}

(***************************************************************************)
(* Category table (types.ts)                                               *)
(***************************************************************************)
CATEGORY_NAMES ==
    100 :> "B2B"
    @@ 101 :> "Decentralised Storage"
    @@ 102 :> "Decentralised Compute"
    @@ 103 :> "Automation/Bots"
    @@ 104 :> "On Ramp/Off Ramp"
    @@ 105 :> "Dev Tools"
    @@ 106 :> "Explorer"
    @@ 107 :> "Wallet"
    @@ 108 :> "Infrastructure"
    @@ 199 :> "Others (B2B)"
    @@ 200 :> "Tools"
    @@ 201 :> "CEX"
    @@ 300 :> "DApps"
    @@ 301 :> "DAO"
    @@ 400 :> "DeFi"
    @@ 401 :> "Betting"
    @@ 402 :> "Lending"
    @@ 403 :> "Prediction Market"
    @@ 404 :> "Stablecoin"
    @@ 405 :> "Yield Aggregator"
    @@ 406 :> "Synthetics"
    @@ 407 :> "Insurance"
    @@ 408 :> "Reserve Currency"
    @@ 409 :> "Oracle"
    @@ 410 :> "Lottery"
    @@ 411 :> "Staking"
    @@ 412 :> "DEX"
    @@ 413 :> "Bridge"
    @@ 414 :> "Yield"
    @@ 415 :> "Launchpad"
    @@ 416 :> "Tooling"
    @@ 417 :> "Derivatives"
    @@ 418 :> "Payments"
    @@ 419 :> "Indexes"
    @@ 420 :> "Privacy"
    @@ 500 :> "Social"
    @@ 501 :> "Messaging"
    @@ 502 :> "Notification"
    @@ 503 :> "Social Network"
    @@ 504 :> "Social Token"
    @@ 600 :> "NFT"
    @@ 601 :> "Game"
    @@ 602 :> "Creator/Brand (Art/Music/Fashion)"
    @@ 603 :> "Middleware Offerings"
    @@ 604 :> "PFP+Game"
    @@ 605 :> "PFP Project/Collectibles"
    @@ 606 :> "Marketplace"
    @@ 700 :> "Gaming"
    @@ 701 :> "Trading Card Game"
    @@ 702 :> "Survival"
    @@ 703 :> "Strategy"
    @@ 704 :> "Simulation"
    @@ 705 :> "Shooter"
    @@ 706 :> "RPG"
    @@ 707 :> "Rhythm Action"
    @@ 708 :> "Platformer"
    @@ 709 :> "MMO"
    @@ 710 :> "Metaverse"
    @@ 711 :> "Fighting"
    @@ 712 :> "CCG"
    @@ 713 :> "Battle Royale"
    @@ 714 :> "Adventure"
    @@ 715 :> "Arcade"
    @@ 716 :> "Cards/Board/Trading"
    @@ 717 :> "Gambling"
    @@ 718 :> "Crypto Farming"
    @@ 719 :> "Puzzle/Party Games"
    @@ 720 :> "Racing"
    @@ 721 :> "Sandbox/Open World"
    @@ 722 :> "Sports"
    @@ 723 :> "Tower Defence"
    @@ 799 :> "Others (Gaming)"

\* getAllCategories(): id, name and group of every entry of the table. The
\* callers below look entries up by id, which does not depend on the order.
getAllCategories ==
    { [id |-> id,
       name |-> CATEGORY_NAMES[id],
       group |-> IF (id \div 100) * 100 \in DOMAIN CATEGORY_NAMES
                 THEN CATEGORY_NAMES[(id \div 100) * 100]
                 ELSE "Other"] : id \in DOMAIN CATEGORY_NAMES }

(***************************************************************************)
(* The chain and the index behind a connection                             *)
(***************************************************************************)
\* A call on Contract(address, runner) reaches the rating contract when the
\* address is the one deployed on the runner's network.
CallReaches(address, runner) ==
    /\ NetworkOf(runner) \in Networks
    /\ address = CHAIN_CONFIGS[NetworkOf(runner)].contractAddress

\* The view calls dappRatingFee() and dappRegistrationFee().
InitialFees == [net \in Networks |-> [rating |-> 1, registration |-> 1]]

dappRatingFee_atConstruction(net) == InitialFees[net].rating

dappRatingFee(net) == fees[net].rating

dappRegistrationFee(net) == fees[net].registration

\* { value: fee, ...overrides }: an options object is a set of <<key, value>>.
Spread(base, overrides) ==
    {kv \in base : ~\E o \in overrides : o[1] = kv[1]} \cup overrides

WithFee(fee, overrides) == Spread({<<"value", fee>>}, overrides)

ValueOf(options) == (CHOOSE kv \in options : kv[1] = "value")[2]

HasValue(options) == \E kv \in options : kv[1] = "value"

\* The index behind an endpoint.
IndexAt(endpoint) ==
    LET net == CHOOSE n \in Networks : CHAIN_CONFIGS[n].graphqlUrl = endpoint
    IN  index[net]

\* dappRatingSubmitteds(where: { dappId: $projectId }): the records whose key
\* is the bytes the text denotes.
WhereDappId(rows, projectId) ==
    SelectSeq(rows, LAMBDA r : r.dappId = ToLower(projectId))

(***************************************************************************)
(* Public operations: the record of the one in flight                      *)
(***************************************************************************)
NoReg == [name |-> << >>, description |-> << >>, url |-> << >>, imageURL |-> << >>,
          categoryId |-> 0]

NoOp ==
    [kind |-> "none", pc |-> "idle", out |-> NoOutcome,
     \* arguments
     id |-> << >>, stars |-> 0, overrides |-> {}, reg |-> NoReg, includeRatings |-> FALSE,
     userIsAddress |-> FALSE,
     \* locals
     runner |-> "none", addr |-> "none", key |-> << >>, fee |-> 0, options |-> {},
     endpoint |-> "none",
     \* what the operation has done
     calls |-> 0, queries |-> 0, sent |-> FALSE,
     \* what the contract or the endpoint answered
     answer |-> "none", rows |-> << >>, dapps |-> << >>,
     \* the step of a write whose call failed, and what it threw
     thrownAt |-> "none", thrown |-> << >>, feeRead |-> FALSE,
     eventName |-> Undefined,
     \* history
     settledAtInvoke |-> "pending", afterRebind |-> FALSE, afterRebindOk |-> FALSE,
     actedResolving |-> FALSE, invEpoch |-> 0, feeEpoch |-> 0]

CanInvoke == nOps < MaxOps /\ op.pc \in {"idle", "done"}

NewOp(kind) ==
    [NoOp EXCEPT
        !.kind = kind,
        !.pc = "awaitInit",
        !.settledAtInvoke = initialized.state,
        !.afterRebind = (nRebinds > 0),
        !.afterRebindOk = (rebind.pc = "done" /\ rebind.out.ok /\ initTask.pc = "done"),
        !.invEpoch = nFeeChanges]

Finish(o, outcome) == [o EXCEPT !.pc = "done", !.out = outcome]

\* The operation returns, raises an error of its own or issues a call now.
Acts(o) == [o EXCEPT !.actedResolving = @ \/ Resolving]

OpFrame ==
    /\ UNCHANGED bindingVars
    /\ UNCHANGED <<nOps, fees, nFeeChanges, index>>
    /\ UNCHANGED canonVars
    /\ UNCHANGED socket

InvokeFrame ==
    /\ nOps' = nOps + 1
    /\ UNCHANGED bindingVars
    /\ UNCHANGED chainVars
    /\ UNCHANGED canonVars
    /\ UNCHANGED socket

(***************************************************************************)
(* getCurrentChain / getContractAddress / getExplorerUrl: synchronous      *)
(***************************************************************************)
GetCurrentChain ==
    /\ CanInvoke
    /\ op' = Acts(Finish(NewOp("getCurrentChain"), Val(chainConfig)))
    /\ InvokeFrame

GetContractAddress ==
    /\ CanInvoke
    /\ op' = Acts(Finish(NewOp("getContractAddress"),
                         IF contract = Undefined
                         THEN Err(TypeErrorUndefined)
                         ELSE Val(Defined(contract[1].address))))
    /\ InvokeFrame

GetExplorerUrl ==
    /\ CanInvoke
    /\ op' = Acts(Finish(NewOp("getExplorerUrl"),
                         IF chainConfig = Undefined
                         THEN Err(TypeErrorUndefined)
                         ELSE Val(Defined(chainConfig[1].explorer))))
    /\ InvokeFrame

(***************************************************************************)
(* ensureInitialized(): await this.initialized                             *)
(***************************************************************************)
\* The awaited promise is rejected: the operation raises its reason.
EnsureInitializedRejects ==
    /\ op.pc = "awaitInit"
    /\ initialized.state = "rejected"
    /\ op' = Finish(op, Err(initialized.msg))
    /\ OpFrame

Resumes(kind) ==
    /\ op.kind = kind
    /\ op.pc = "awaitInit"
    /\ initialized.state = "fulfilled"

(***************************************************************************)
(* submitReview                                                            *)
(***************************************************************************)
StarInputs == {0, 1, 5, 6}

\* The star values where the fee is what is looked at.
WriteStars == {0, 5, 6}

OverrideInputs == { {}, {<<"gasLimit", 100000>>}, {<<"value", 0>>} }

\* What a rejected signer query or contract call throws: an Error with a message.
SignerUnavailable == <<"signer unavailable">>
CallFailed == <<"call failed">>

Throws(o, step, error) == [o EXCEPT !.thrownAt = step, !.thrown = error]

\* catch (error): throw new Error(`Failed to submit review: ${error.message || error}`)
submitReview_catch_unknown(error) == Err(<<"Failed to submit review: ", "Unknown error">>)

submitReview_catch(error) == Err(<<"Failed to submit review: ">> \o error)

SubmitReviewCall(dappId, starRating, overrides) ==
    /\ CanInvoke
    /\ op' = [NewOp("submitReview") EXCEPT
                !.id = dappId, !.stars = starRating, !.overrides = overrides]
    /\ InvokeFrame

\* The checks of submitReview before its try block: the message raised, or << >>.
submitReview_validate_max6(dappId, starRating) ==
    IF dappId = << >>
    THEN <<"dappId must be non-empty">>
    ELSE IF starRating < 1 \/ starRating > 6
    THEN <<"Star rating must be between 1 and 5">>
    ELSE << >>

submitReview_validate(dappId, starRating) ==
    IF dappId = << >>
    THEN <<"dappId must be non-empty">>
    ELSE IF starRating < 1 \/ starRating > 5
    THEN <<"Star rating must be between 1 and 5">>
    ELSE << >>

\* The checks, then signer.getAddress().
SubmitReviewStart ==
    /\ Resumes("submitReview")
    /\ op' = Acts(
        IF submitReview_validate(op.id, op.stars) # << >>
        THEN Finish(op, Err(submitReview_validate(op.id, op.stars)))
        ELSE [op EXCEPT !.pc = "signer", !.calls = @ + 1])
    /\ OpFrame

\* contract = this.contract; the key; signedContract.dappRatingFee().
SubmitReviewSigner ==
    /\ op.kind = "submitReview"
    /\ op.pc = "signer"
    /\ \E ok \in BOOLEAN :
        op' = Acts(
            IF ~ok
            THEN Finish(Throws(op, "signer", SignerUnavailable),
                        submitReview_catch(SignerUnavailable))
            ELSE IF contract = Undefined
            THEN Finish(Throws(op, "connect", TypeErrorUndefined),
                        submitReview_catch(TypeErrorUndefined))
            ELSE [op EXCEPT
                    !.addr = contract[1].address,
                    !.runner = contract[1].runner,
                    !.key = submitReview_dappIdBytes32(op.id),
                    !.pc = "fee",
                    !.calls = @ + 1])
    /\ OpFrame

\* The fee arrives; addDappRating(key, stars, text, { value: ratingFee, ...overrides }).
SubmitReviewFee ==
    /\ op.kind = "submitReview"
    /\ op.pc = "fee"
    /\ \E ok \in {b \in BOOLEAN : b => CallReaches(op.addr, op.runner)} :
        op' = Acts(
            IF ~ok
            THEN Finish(Throws(op, "fee", CallFailed), submitReview_catch(CallFailed))
            ELSE LET ratingFee == dappRatingFee(NetworkOf(op.runner)) IN
                 [op EXCEPT
                    !.fee = ratingFee,
                    !.feeRead = TRUE,
                    !.feeEpoch = nFeeChanges,
                    !.options = WithFee(ratingFee, op.overrides),
                    !.pc = "send",
                    !.calls = @ + 1])
    /\ OpFrame

\* The transaction is broadcast (or refused); the index records the rating.
SubmitReviewSent ==
    /\ op.kind = "submitReview"
    /\ op.pc = "send"
    /\ \E ok \in {b \in BOOLEAN : b => CallReaches(op.addr, op.runner)} :
        IF ~ok
        THEN /\ op' = Acts(Finish(Throws(op, "send", CallFailed),
                                  submitReview_catch(CallFailed)))
             /\ UNCHANGED index
        ELSE /\ op' = Acts(Finish([op EXCEPT !.sent = TRUE], Val(Defined("tx"))))
             /\ LET net == NetworkOf(op.runner)
                    rating == [dappId |-> ToLower(op.key), starRating |-> op.stars]
                IN  index' = IF Len(index[net]) < MaxIndex
                             THEN [index EXCEPT ![net] = Append(@, rating)]
                             ELSE index
    /\ UNCHANGED bindingVars
    /\ UNCHANGED <<nOps, fees, nFeeChanges>>
    /\ UNCHANGED canonVars
    /\ UNCHANGED socket

(***************************************************************************)
(* listenToReviews / stopListening, and the contract's events              *)
(***************************************************************************)
ListenFrame ==
    /\ UNCHANGED bindingVars
    /\ UNCHANGED <<nOps, fees, nFeeChanges, index>>
    /\ UNCHANGED canonVars

ListenToReviewsCall ==
    /\ CanInvoke
    /\ op' = NewOp("listenToReviews")
    /\ InvokeFrame

\* this.reviewListener = async (...) => {...};
\* this.contract_socket.on("DappRatingSubmitted", this.reviewListener)
listenToReviews_subscribe(s) ==
    [s EXCEPT
        !.reviewListener = Defined(s.nListeners + 1),
        !.nListeners = @ + 1,
        !.listeners = @ \cup {<<s.contract_socket[1].id, s.contract_socket[1].address,
                                s.nListeners + 1>>},
        !.stopped = FALSE]

ListenToReviewsStart ==
    /\ Resumes("listenToReviews")
    /\ IF socket.contract_socket = Undefined
       THEN /\ op' = Acts(Finish(op, Err(<<"Socket Provider is not defined, cannot listen to events. Please pass it to RateCaster constructor">>)))
            /\ UNCHANGED socket
       ELSE /\ op' = Acts(Finish(op, Val(socket.contract_socket)))
            /\ socket' = listenToReviews_subscribe(socket)
    /\ ListenFrame

EventNames == {Undefined, Defined("DappRatingSubmitted")}

StopListeningCall(eventName) ==
    /\ CanInvoke
    /\ op' = [NewOp("stopListening") EXCEPT !.eventName = eventName]
    /\ InvokeFrame

\* this.contract_socket.off("DappRatingSubmitted", this.reviewListener);
\* this.reviewListener = null
stopListening_off(s, eventName) ==
    LET targetEvent == IF eventName # Undefined THEN eventName[1] ELSE "DappRatingSubmitted"
    IN  IF /\ s.contract_socket # Undefined
           /\ s.reviewListener # Undefined
           /\ targetEvent = "DappRatingSubmitted"
        THEN [s EXCEPT
                !.listeners = @ \ {<<s.contract_socket[1].id, s.contract_socket[1].address,
                                     s.reviewListener[1]>>},
                !.reviewListener = Undefined]
        ELSE s

StopListeningStart ==
    /\ Resumes("stopListening")
    /\ op' = Acts(Finish(op, Val(Undefined)))
    /\ socket' = [stopListening_off(socket, op.eventName) EXCEPT
                    !.stopped = TRUE, !.invoked = {}]
    /\ ListenFrame

\* The rating contract at an address emits DappRatingSubmitted: every listener
\* held by a websocket contract for that address runs and calls its callback.
DappRatingSubmitted(address) ==
    LET invoked == {l[3] : l \in {x \in socket.listeners : x[2] = address}} IN
    /\ socket.provider_socket
    /\ socket' = [socket EXCEPT
                    !.invoked = invoked,
                    !.calledAfterStop = @ \/ (socket.stopped /\ invoked # {})]
    /\ UNCHANGED bindingVars
    /\ UNCHANGED <<op, nOps>>
    /\ UNCHANGED chainVars
    /\ UNCHANGED canonVars

(***************************************************************************)
(* registerDapp                                                            *)
(***************************************************************************)
HttpA == <<"h", "t", "t", "p", ":", "/", "/", "a">>
HttpsA == <<"h", "t", "t", "p", "s", ":", "/", "/", "a">>
FtpA == <<"f", "t", "p", ":", "/", "/", "a">>

NameInputs == {<< >>, Rep("n", 1), Rep("n", 100), Rep("n", 101)}
DescriptionInputs == {<< >>, Rep("d", 1000), Rep("d", 1001)}
UrlInputs == {<< >>, HttpA, HttpsA, FtpA}
ImageUrlInputs == {<< >>, HttpsA, FtpA}
CategoryInputs == {0, 100, 150, 412}

\* /^https?:\/\//.test(url)
HttpUrl(url) ==
    \/ StartsWith(url, <<"h", "t", "t", "p", ":", "/", "/">>)
    \/ StartsWith(url, <<"h", "t", "t", "p", "s", ":", "/", "/">>)

\* The checks of registerDapp before its try block: the message raised, or << >>.
registerDapp_validate_name99(reg) ==
    IF reg.name = << >> \/ Len(reg.name) > 99
    THEN <<"Name must be non-empty and at most 100 characters">>
    ELSE IF Len(reg.description) > 1000
    THEN <<"Description must be at most 1000 characters">>
    ELSE IF reg.url = << >> \/ ~HttpUrl(reg.url)
    THEN <<"URL must be a valid HTTP/HTTPS URL">>
    ELSE IF reg.imageURL = << >> \/ ~HttpUrl(reg.imageURL)
    THEN <<"Image URL must be a valid HTTP/HTTPS URL">>
    ELSE IF ~\E cat \in getAllCategories : cat.id = reg.categoryId
    THEN <<"Invalid category ID: ", ToString(reg.categoryId)>>
    ELSE << >>

registerDapp_validate(reg) ==
    IF reg.name = << >> \/ Len(reg.name) > 100
    THEN <<"Name must be non-empty and at most 100 characters">>
    ELSE IF Len(reg.description) > 1000
    THEN <<"Description must be at most 1000 characters">>
    ELSE IF reg.url = << >> \/ ~HttpUrl(reg.url)
    THEN <<"URL must be a valid HTTP/HTTPS URL">>
    ELSE IF reg.imageURL = << >> \/ ~HttpUrl(reg.imageURL)
    THEN <<"Image URL must be a valid HTTP/HTTPS URL">>
    ELSE IF ~\E cat \in getAllCategories : cat.id = reg.categoryId
    THEN <<"Invalid category ID: ", ToString(reg.categoryId)>>
    ELSE << >>

RegInputs ==
    [name : NameInputs, description : DescriptionInputs, url : UrlInputs,
     imageURL : ImageUrlInputs, categoryId : CategoryInputs]

ValidReg == [name |-> Rep("n", 1), description |-> << >>, url |-> HttpA,
             imageURL |-> HttpsA, categoryId |-> 412]

\* catch (error): throw new Error(`Failed to register dapp: ${error.message || error}`)
registerDapp_catch(error) == Err(<<"Failed to register dapp: ">> \o error)

RegisterDappCall(overrides) ==
    /\ CanInvoke
    /\ op' = [NewOp("registerDapp") EXCEPT !.reg = regIn, !.overrides = overrides]
    /\ InvokeFrame

\* The checks; provider = this.provider; signer.getAddress().
RegisterDappStart ==
    /\ Resumes("registerDapp")
    /\ op' = Acts(
        IF registerDapp_validate(op.reg) # << >>
        THEN Finish(op, Err(registerDapp_validate(op.reg)))
        ELSE [op EXCEPT !.runner = provider, !.pc = "signer", !.calls = @ + 1])
    /\ OpFrame

\* new Contract(this.chainConfig.contractAddress, ABI, provider); dappRegistrationFee().
RegisterDappSigner ==
    /\ op.kind = "registerDapp"
    /\ op.pc = "signer"
    /\ \E ok \in BOOLEAN :
        op' = Acts(
            IF ~ok
            THEN Finish(Throws(op, "signer", SignerUnavailable),
                        registerDapp_catch(SignerUnavailable))
            ELSE IF chainConfig = Undefined
            THEN Finish(Throws(op, "connect", TypeErrorUndefined),
                        registerDapp_catch(TypeErrorUndefined))
            ELSE [op EXCEPT
                    !.addr = chainConfig[1].contractAddress,
                    !.pc = "fee",
                    !.calls = @ + 1])
    /\ OpFrame

\* The fee arrives; registerDapp(..., { value: registrationFee, ...overrides }).
RegisterDappFee ==
    /\ op.kind = "registerDapp"
    /\ op.pc = "fee"
    /\ \E ok \in {b \in BOOLEAN : b => CallReaches(op.addr, op.runner)} :
        op' = Acts(
            IF ~ok
            THEN Finish(Throws(op, "fee", CallFailed), registerDapp_catch(CallFailed))
            ELSE LET registrationFee == dappRegistrationFee(NetworkOf(op.runner)) IN
                 [op EXCEPT
                    !.fee = registrationFee,
                    !.feeRead = TRUE,
                    !.feeEpoch = nFeeChanges,
                    !.options = WithFee(registrationFee, op.overrides),
                    !.pc = "send",
                    !.calls = @ + 1])
    /\ OpFrame

RegisterDappSent ==
    /\ op.kind = "registerDapp"
    /\ op.pc = "send"
    /\ \E ok \in {b \in BOOLEAN : b => CallReaches(op.addr, op.runner)} :
        op' = Acts(
            IF ~ok
            THEN Finish(Throws(op, "send", CallFailed), registerDapp_catch(CallFailed))
            ELSE Finish([op EXCEPT !.sent = TRUE], Val(Defined("tx"))))
    /\ OpFrame

(***************************************************************************)
(* The contract owner changes a fee                                        *)
(***************************************************************************)
\* The amounts the owner sets a fee to.
FeeInputs == {0, 1, 2}

AdminSetRatingFee(net, fee) ==
    /\ nFeeChanges < MaxFeeChanges
    /\ fee # fees[net].rating
    /\ fees' = [fees EXCEPT ![net].rating = fee]
    /\ nFeeChanges' = nFeeChanges + 1
    /\ UNCHANGED bindingVars
    /\ UNCHANGED <<op, nOps, index>>
    /\ UNCHANGED canonVars
    /\ UNCHANGED socket

AdminSetRegistrationFee(net, fee) ==
    /\ nFeeChanges < MaxFeeChanges
    /\ fee # fees[net].registration
    /\ fees' = [fees EXCEPT ![net].registration = fee]
    /\ nFeeChanges' = nFeeChanges + 1
    /\ UNCHANGED bindingVars
    /\ UNCHANGED <<op, nOps, index>>
    /\ UNCHANGED canonVars
    /\ UNCHANGED socket

(***************************************************************************)
(* updateDapp / deleteDapp                                                 *)
(***************************************************************************)
\* The checks of updateDapp before its try block: the message raised, or << >>.
updateDapp_validate(dappId, reg) ==
    IF dappId = << >>
    THEN <<"dappId must be non-empty">>
    ELSE IF reg.name = << >> \/ Len(reg.name) > 100
    THEN <<"Name must be non-empty and at most 100 characters">>
    ELSE IF reg.description = << >> \/ Len(reg.description) > 1000
    THEN <<"Description must be non-empty and at most 1000 characters">>
    ELSE IF reg.url = << >> \/ ~HttpUrl(reg.url)
    THEN <<"URL must be a valid HTTP/HTTPS URL">>
    ELSE IF reg.imageURL = << >> \/ ~HttpUrl(reg.imageURL)
    THEN <<"Image URL must be a valid HTTP/HTTPS URL">>
    ELSE IF ~\E cat \in getAllCategories : cat.id = reg.categoryId
    THEN <<"Invalid category ID: ", ToString(reg.categoryId)>>
    ELSE << >>

UpdateInputs ==
    { [name |-> Rep("n", 1), description |-> d, url |-> HttpsA, imageURL |-> HttpsA,
       categoryId |-> 412] : d \in {<< >>, Rep("d", 1)} }

UpdateDappCall(dappId, reg, overrides) ==
    /\ CanInvoke
    /\ op' = [NewOp("updateDapp") EXCEPT
                !.id = dappId, !.reg = reg, !.overrides = overrides]
    /\ InvokeFrame

UpdateDappStart ==
    /\ Resumes("updateDapp")
    /\ op' = Acts(
        IF updateDapp_validate(op.id, op.reg) # << >>
        THEN Finish(op, Err(updateDapp_validate(op.id, op.reg)))
        ELSE [op EXCEPT !.runner = provider, !.pc = "signer", !.calls = @ + 1])
    /\ OpFrame

\* new Contract(...); the key; signedContract.updateDapp(key, ..., overrides).
UpdateDappSigner ==
    /\ op.kind = "updateDapp"
    /\ op.pc = "signer"
    /\ \E ok \in BOOLEAN :
        op' = Acts(
            IF ~ok
            THEN Finish(op, Err(<<"Failed to update dapp: ", "signer unavailable">>))
            ELSE IF chainConfig = Undefined
            THEN Finish(op, Err(<<"Failed to update dapp: ">> \o TypeErrorUndefined))
            ELSE [op EXCEPT
                    !.addr = chainConfig[1].contractAddress,
                    !.key = updateDapp_dappIdBytes32(op.id),
                    !.options = op.overrides,
                    !.pc = "send",
                    !.calls = @ + 1])
    /\ OpFrame

UpdateDappSent ==
    /\ op.kind = "updateDapp"
    /\ op.pc = "send"
    /\ \E ok \in {b \in BOOLEAN : b => CallReaches(op.addr, op.runner)} :
        op' = Acts(
            IF ~ok
            THEN Finish(op, Err(<<"Failed to update dapp: ", "call failed">>))
            ELSE Finish([op EXCEPT !.sent = TRUE], Val(Defined("tx"))))
    /\ OpFrame

DeleteDappCall(dappId, overrides) ==
    /\ CanInvoke
    /\ op' = [NewOp("deleteDapp") EXCEPT !.id = dappId, !.overrides = overrides]
    /\ InvokeFrame

DeleteDappStart ==
    /\ Resumes("deleteDapp")
    /\ op' = Acts(
        IF op.id = << >>
        THEN Finish(op, Err(<<"dappId must be non-empty">>))
        ELSE [op EXCEPT !.runner = provider, !.pc = "signer", !.calls = @ + 1])
    /\ OpFrame

\* new Contract(...); the key; signedContract.deleteDapp(key, overrides).
DeleteDappSigner ==
    /\ op.kind = "deleteDapp"
    /\ op.pc = "signer"
    /\ \E ok \in BOOLEAN :
        op' = Acts(
            IF ~ok
            THEN Finish(op, Err(<<"Failed to delete dapp: ", "signer unavailable">>))
            ELSE IF chainConfig = Undefined
            THEN Finish(op, Err(<<"Failed to delete dapp: ">> \o TypeErrorUndefined))
            ELSE [op EXCEPT
                    !.addr = chainConfig[1].contractAddress,
                    !.key = deleteDapp_dappIdBytes32(op.id),
                    !.options = op.overrides,
                    !.pc = "send",
                    !.calls = @ + 1])
    /\ OpFrame

DeleteDappSent ==
    /\ op.kind = "deleteDapp"
    /\ op.pc = "send"
    /\ \E ok \in {b \in BOOLEAN : b => CallReaches(op.addr, op.runner)} :
        op' = Acts(
            IF ~ok
            THEN Finish(op, Err(<<"Failed to delete dapp: ", "call failed">>))
            ELSE Finish([op EXCEPT !.sent = TRUE], Val(Defined("tx"))))
    /\ OpFrame

(***************************************************************************)
(* Contract reads: isDappRegistered, hasUserRatedProject,                  *)
(* getProjectRatingCount                                                   *)
(***************************************************************************)
\* provider = this.provider; new Contract(this.chainConfig.contractAddress, ...);
\* the key; the view call is issued.
IssueRead(o, key, failure) ==
    IF chainConfig = Undefined
    THEN Finish(o, Err(failure \o TypeErrorUndefined))
    ELSE [o EXCEPT
            !.runner = provider,
            !.addr = chainConfig[1].contractAddress,
            !.key = key,
            !.pc = "call",
            !.calls = @ + 1]

\* The ratings the contract counts for a key on a network.
RatingsOf(net, key) == SelectSeq(index[net], LAMBDA r : r.dappId = ToLower(key))

IsDappRegisteredCall(dappId) ==
    /\ CanInvoke
    /\ op' = [NewOp("isDappRegistered") EXCEPT !.id = dappId]
    /\ InvokeFrame

IsDappRegisteredStart ==
    /\ Resumes("isDappRegistered")
    /\ op' = Acts(
        IF op.id = << >>
        THEN Finish(op, Err(<<"dappId must be non-empty">>))
        ELSE IssueRead(op, isDappRegistered_dappIdBytes32(op.id),
                       <<"Failed to check dapp registration: ">>))
    /\ OpFrame

IsDappRegisteredReturned ==
    /\ op.kind = "isDappRegistered"
    /\ op.pc = "call"
    /\ \E ok \in {b \in BOOLEAN : b => CallReaches(op.addr, op.runner)} :
       \E isRegistered \in BOOLEAN :
        op' = Acts(
            IF ~ok
            THEN Finish(op, Err(<<"Failed to check dapp registration: ", "call failed">>))
            ELSE Finish(op, Val(Defined(isRegistered))))
    /\ OpFrame

HasUserRatedProjectCall(userIsAddress, projectId) ==
    /\ CanInvoke
    /\ op' = [NewOp("hasUserRatedProject") EXCEPT
                !.id = projectId, !.userIsAddress = userIsAddress]
    /\ InvokeFrame

HasUserRatedProjectStart ==
    /\ Resumes("hasUserRatedProject")
    /\ op' = Acts(
        IF ~op.userIsAddress
        THEN Finish(op, Err(<<"Invalid user address">>))
        ELSE IF op.id = << >>
        THEN Finish(op, Err(<<"projectId must be non-empty">>))
        ELSE IssueRead(op, hasUserRatedProject_projectIdBytes32(op.id),
                       <<"Failed to check rating status: ">>))
    /\ OpFrame

HasUserRatedProjectReturned ==
    /\ op.kind = "hasUserRatedProject"
    /\ op.pc = "call"
    /\ \E ok \in {b \in BOOLEAN : b => CallReaches(op.addr, op.runner)} :
       \E rated \in BOOLEAN :
        op' = Acts(
            IF ~ok
            THEN Finish(op, Err(<<"Failed to check rating status: ", "call failed">>))
            ELSE Finish(op, Val(Defined(rated))))
    /\ OpFrame

GetProjectRatingCountCall(projectId) ==
    /\ CanInvoke
    /\ op' = [NewOp("getProjectRatingCount") EXCEPT !.id = projectId]
    /\ InvokeFrame

GetProjectRatingCountStart ==
    /\ Resumes("getProjectRatingCount")
    /\ op' = Acts(
        IF op.id = << >>
        THEN Finish(op, Err(<<"projectId must be non-empty">>))
        ELSE IssueRead(op, getProjectRatingCount_projectIdBytes32(op.id),
                       <<"Failed to fetch rating count: ">>))
    /\ OpFrame

GetProjectRatingCountReturned ==
    /\ op.kind = "getProjectRatingCount"
    /\ op.pc = "call"
    /\ \E ok \in {b \in BOOLEAN : b => CallReaches(op.addr, op.runner)} :
        op' = Acts(
            IF ~ok
            THEN Finish(op, Err(<<"Failed to fetch rating count: ", "call failed">>))
            ELSE Finish(op, Val(Defined(Len(RatingsOf(NetworkOf(op.runner), op.key))))))
    /\ OpFrame

(***************************************************************************)
(* Index reads: fetchGraphQL, getProjectReviews, getAllReviews             *)
(***************************************************************************)
\* What the endpoint answers: rows, a non-success status, or an errors field.
FetchAnswers == {"data", "status", "errors"}

\* fetchGraphQL's error for an answer that is not data.
fetchGraphQL_error_unknown(answer) ==
    <<"Failed to fetch GraphQL data: ", "Unknown error">>

fetchGraphQL_error(answer) ==
    IF answer = "status"
    THEN <<"Failed to fetch GraphQL data: ", "HTTP error! status: ", "500">>
    ELSE <<"Failed to fetch GraphQL data: ", "GraphQL errors: ", "[{message}]">>

\* getGraphqlUrl() and the request of fetchGraphQL.
IssueQuery(o, failure) ==
    IF chainConfig = Undefined
    THEN Finish(o, Err(failure \o TypeErrorUndefined))
    ELSE [o EXCEPT
            !.endpoint = chainConfig[1].graphqlUrl,
            !.pc = "query",
            !.queries = @ + 1]

\* response.data.dappRatingSubmitteds for variables: { projectId }.
getProjectReviews_rows(endpoint, projectId) ==
    WhereDappId(IndexAt(endpoint), projectId)

GetProjectReviewsCall(projectId) ==
    /\ CanInvoke
    /\ op' = [NewOp("getProjectReviews") EXCEPT !.id = projectId]
    /\ InvokeFrame

GetProjectReviewsStart ==
    /\ Resumes("getProjectReviews")
    /\ op' = Acts(
        IF op.id = << >>
        THEN Finish(op, Err(<<"projectId must be non-empty">>))
        ELSE IssueQuery(op, <<"Failed to fetch project reviews: ">>))
    /\ OpFrame

GetProjectReviewsReturned ==
    /\ op.kind = "getProjectReviews"
    /\ op.pc = "query"
    /\ \E answer \in FetchAnswers :
        op' = Acts(
            IF answer # "data"
            THEN Finish([op EXCEPT !.answer = answer],
                        Err(<<"Failed to fetch project reviews: ">>
                            \o fetchGraphQL_error(answer)))
            ELSE Finish([op EXCEPT !.answer = answer],
                        Val(getProjectReviews_rows(op.endpoint, op.id))))
    /\ OpFrame

GetAllReviewsCall ==
    /\ CanInvoke
    /\ op' = NewOp("getAllReviews")
    /\ InvokeFrame

GetAllReviewsStart ==
    /\ Resumes("getAllReviews")
    /\ op' = Acts(IssueQuery(op, <<"Failed to fetch reviews: ">>))
    /\ OpFrame

GetAllReviewsReturned ==
    /\ op.kind = "getAllReviews"
    /\ op.pc = "query"
    /\ \E answer \in FetchAnswers :
        op' = Acts(
            IF answer # "data"
            THEN Finish([op EXCEPT !.answer = answer],
                        Err(<<"Failed to fetch reviews: ">>
                            \o fetchGraphQL_error(answer)))
            ELSE Finish([op EXCEPT !.answer = answer], Val(IndexAt(op.endpoint))))
    /\ OpFrame

(***************************************************************************)
(* Numbers: the quotient of two counts                                     *)
(***************************************************************************)
RECURSIVE GCD(_, _)
GCD(a, b) == IF b = 0 THEN a ELSE GCD(b, a % b)

\* The number n / d for n, d >= 0, kept as a fraction in lowest terms; 0 / 0
\* is NaN and n / 0 is Infinity.
NaN == [num |-> 0, den |-> 0]
Infinity == [num |-> 1, den |-> 0]
Zero == [num |-> 0, den |-> 1]

Divide(n, d) ==
    IF d = 0
    THEN IF n = 0 THEN NaN ELSE Infinity
    ELSE [num |-> n \div GCD(n, d), den |-> d \div GCD(n, d)]

\* x || 0
OrZero(x) == IF x = NaN \/ x = Zero THEN Zero ELSE x

(***************************************************************************)
(* getCategoryNameById                                                     *)
(***************************************************************************)
\* A category id as the caller passes it (a number) or as ethers decodes it
\* from a contract record (a bigint).
Num(n) == [type |-> "number", n |-> n]
OnChain(n) == [type |-> "bigint", n |-> n]

\* allCategories.find(cat => cat.id === categoryId): === never holds between
\* a number and a bigint.
FindCategory(categoryId) ==
    {cat \in getAllCategories : categoryId.type = "number" /\ cat.id = categoryId.n}

\* The text returned: "name (group)", the table's name, or "Unknown (id)".
getCategoryNameById_defaultsToFirst(categoryId) ==
    IF FindCategory(categoryId) # {}
    THEN LET category == CHOOSE cat \in FindCategory(categoryId) : TRUE
         IN  <<category.name, " (", category.group, ")">>
    ELSE IF categoryId.n \in DOMAIN CATEGORY_NAMES
    THEN <<CATEGORY_NAMES[categoryId.n]>>
    ELSE <<CATEGORY_NAMES[100]>>

getCategoryNameById(categoryId) ==
    IF FindCategory(categoryId) # {}
    THEN LET category == CHOOSE cat \in FindCategory(categoryId) : TRUE
         IN  <<category.name, " (", category.group, ")">>
    ELSE IF categoryId.n \in DOMAIN CATEGORY_NAMES
    THEN <<CATEGORY_NAMES[categoryId.n]>>
    ELSE <<"Unknown (", ToString(categoryId.n), ")">>

GetCategoryNameById(categoryId) ==
    /\ CanInvoke
    /\ op' = Acts(Finish([NewOp("getCategoryNameById") EXCEPT !.reg.categoryId = categoryId],
                         Val(Defined(getCategoryNameById(Num(categoryId))))))
    /\ InvokeFrame

(***************************************************************************)
(* getCategoryTree / getCategoryOptions                                    *)
(*                                                                         *)
(* Both end with a sort or build on a sorted list. A sort permutes a list, *)
(* so a sorted list is kept here as the bag of its elements.               *)
(***************************************************************************)
\* What list.sort(...) returns, up to the order: each element with the number
\* of times the list holds it.
Sorted(list) ==
    [x \in {list[i] : i \in DOMAIN list} |->
        Cardinality({i \in DOMAIN list : list[i] = x})]

RECURSIVE AscendingIds(_)
AscendingIds(S) ==
    IF S = {} THEN << >>
    ELSE LET least == CHOOSE x \in S : \A y \in S : x <= y
         IN  <<least>> \o AscendingIds(S \ {least})

\* Object.entries(CATEGORY_NAMES): integer keys come in ascending order.
CategoryEntries ==
    LET ids == AscendingIds(DOMAIN CATEGORY_NAMES)
    IN  [i \in DOMAIN ids |-> <<ids[i], CATEGORY_NAMES[ids[i]]>>]

\* Math.floor(id / 100) * 100
getMainCategoryId(categoryId) == (categoryId \div 100) * 100

getCategoriesByMainCategory(mainCategoryId) ==
    LET entries == SelectSeq(CategoryEntries,
                             LAMBDA e : getMainCategoryId(e[1]) = mainCategoryId)
    IN  [i \in DOMAIN entries |-> [id |-> entries[i][1], name |-> entries[i][2]]]

getAllMainCategories ==
    << [id |-> 100, name |-> CATEGORY_NAMES[100]],
       [id |-> 200, name |-> CATEGORY_NAMES[200]],
       [id |-> 300, name |-> CATEGORY_NAMES[300]],
       [id |-> 400, name |-> CATEGORY_NAMES[400]],
       [id |-> 500, name |-> CATEGORY_NAMES[500]],
       [id |-> 600, name |-> CATEGORY_NAMES[600]],
       [id |-> 700, name |-> CATEGORY_NAMES[700]] >>

\* getCategoriesByMainCategory(mainCategory.id).filter(...).sort(...)
getCategoryTree_subcategories_unfiltered(mainCategory) ==
    Sorted(getCategoriesByMainCategory(mainCategory.id))

getCategoryTree_subcategories(mainCategory) ==
    Sorted(SelectSeq(getCategoriesByMainCategory(mainCategory.id),
                     LAMBDA category : category.id # mainCategory.id))

getCategoryTree ==
    [i \in DOMAIN getAllMainCategories |->
        [id |-> getAllMainCategories[i].id,
         name |-> getAllMainCategories[i].name,
         subcategories |-> getCategoryTree_subcategories(getAllMainCategories[i])]]

\* this.getAllCategories().filter(category => category.id % 100 !== 0).map(...):
\* getAllCategories holds one entry per key of the table.
getCategoryOptions ==
    LET kept == {category \in getAllCategories : category.id % 100 # 0}
        option(category) == [value |-> category.id,
                             label |-> category.name,
                             group |-> category.group]
    IN  [o \in {option(category) : category \in kept} |->
            Cardinality({category \in kept : option(category) = o})]

GetCategoryTree ==
    /\ CanInvoke
    /\ op' = Acts(Finish(NewOp("getCategoryTree"), Val(Defined(getCategoryTree))))
    /\ InvokeFrame

GetCategoryOptions ==
    /\ CanInvoke
    /\ op' = Acts(Finish(NewOp("getCategoryOptions"), Val(Defined(getCategoryOptions))))
    /\ InvokeFrame

(***************************************************************************)
(* getDapp                                                                 *)
(***************************************************************************)
RECURSIVE SumStars(_)
SumStars(rows) ==
    IF rows = << >> THEN 0 ELSE Head(rows).starRating + SumStars(Tail(rows))

GetDappCall(dappId, includeRatings) ==
    /\ CanInvoke
    /\ op' = [NewOp("getDapp") EXCEPT !.id = dappId, !.includeRatings = includeRatings]
    /\ InvokeFrame

GetDappStart ==
    /\ Resumes("getDapp")
    /\ op' = Acts(
        IF op.id = << >>
        THEN Finish(op, Err(<<"dappId must be non-empty">>))
        ELSE IssueRead(op, getDapp_dappIdBytes32(op.id), <<"Failed to fetch dapp: ">>))
    /\ OpFrame

\* The record getDapp and getAllDapps build from a registration record.
transformedDapp(dapp) ==
    [dappId |-> dapp.dappId,
     categoryId |-> dapp.categoryId,
     category |-> getCategoryNameById(OnChain(dapp.categoryId)),
     stats |-> Undefined]

\* totalReviews and averageRating of the reviews of one record.
RatingStats(reviews) ==
    [totalReviews |-> Len(reviews),
     averageRating |-> IF Len(reviews) > 0
                       THEN Divide(SumStars(reviews), Len(reviews))
                       ELSE Zero]

\* The category ids registration records carry on chain.
ContractCategoryIds == {412, 999}

\* contract.getDapp(key) settles; with includeRatings, getProjectReviews(dappId)
\* is called and issues its query.
GetDappReturned ==
    /\ op.kind = "getDapp"
    /\ op.pc = "call"
    /\ \E answer \in {a \in {"dapp", "notRegistered", "failed"} :
                        a # "failed" => CallReaches(op.addr, op.runner)} :
       \E categoryId \in ContractCategoryIds :
        LET o == [op EXCEPT !.answer = answer,
                            !.dapps = IF answer = "dapp"
                                      THEN <<[dappId |-> ToLower(op.key),
                                              categoryId |-> categoryId]>>
                                      ELSE << >>]
        IN
        op' = Acts(
            IF answer = "failed"
            THEN Finish(o, Err(<<"Failed to fetch dapp: ", "call failed">>))
            ELSE IF answer = "notRegistered"
            THEN Finish(o, Err(<<"Dapp not found: ", "dappId">>))
            ELSE IF ~op.includeRatings
            THEN Finish(o, Val(Defined(transformedDapp(o.dapps[1]))))
            ELSE IssueQuery(o, <<"Failed to fetch dapp: ",
                                 "Failed to fetch project reviews: ">>))
    /\ OpFrame

\* The reviews arrive: totalReviews and averageRating (sum / totalReviews).
GetDappReviewsReturned ==
    /\ op.kind = "getDapp"
    /\ op.pc = "query"
    /\ \E answer \in FetchAnswers :
        op' = Acts(
            IF answer # "data"
            THEN Finish([op EXCEPT !.answer = answer],
                        Err(<<"Failed to fetch dapp: ",
                              "Failed to fetch project reviews: ">>
                            \o fetchGraphQL_error(answer)))
            ELSE LET ratings == getProjectReviews_rows(op.endpoint, op.id) IN
                 Finish([op EXCEPT !.answer = answer, !.rows = ratings],
                        Val(Defined([transformedDapp(op.dapps[1]) EXCEPT
                                        !.stats = Defined(RatingStats(ratings))]))))
    /\ OpFrame

(***************************************************************************)
(* getAllDapps                                                             *)
(***************************************************************************)
\* dapps.map(dapp => ({ ... })): one record per registration record.
RECURSIVE getAllDapps_transformedDapps_dedup(_)
getAllDapps_transformedDapps_dedup(dapps) ==
    IF dapps = << >>
    THEN << >>
    ELSE LET front == getAllDapps_transformedDapps_dedup(SubSeq(dapps, 1, Len(dapps) - 1))
             last == dapps[Len(dapps)]
         IN  IF \E i \in 1..Len(front) : front[i].dappId = last.dappId
             THEN front
             ELSE Append(front, transformedDapp(last))

getAllDapps_transformedDapps(dapps) ==
    [i \in 1..Len(dapps) |-> transformedDapp(dapps[i])]

\* transformedDapps.map(dapp => ({ ...dapp, averageRating, totalReviews })).
getAllDapps_dappsWithRatings_unfiltered(transformedDapps, reviews) ==
    [i \in 1..Len(transformedDapps) |->
        [transformedDapps[i] EXCEPT !.stats = Defined(RatingStats(reviews))]]

getAllDapps_dappsWithRatings(transformedDapps, reviews) ==
    [i \in 1..Len(transformedDapps) |->
        LET dapp == transformedDapps[i]
            dappReviews == SelectSeq(reviews, LAMBDA r : r.dappId = dapp.dappId)
        IN  [dapp EXCEPT !.stats = Defined(RatingStats(dappReviews))]]

GetAllDappsCall(includeRatings) ==
    /\ CanInvoke
    /\ op' = [NewOp("getAllDapps") EXCEPT !.includeRatings = includeRatings]
    /\ InvokeFrame

\* provider = this.provider; new Contract(...); contract.getAllDapps().
GetAllDappsStart ==
    /\ Resumes("getAllDapps")
    /\ op' = Acts(IssueRead(op, << >>, <<"Failed to fetch dapps: ">>))
    /\ OpFrame

\* What getAllDapps does once the contract has answered with dapps.
getAllDapps_afterCall_alwaysEnriches(o, dapps) ==
    IssueQuery([o EXCEPT !.dapps = dapps, !.answer = "dapps"],
               <<"Failed to fetch dapps: ">>)

getAllDapps_afterCall(o, dapps) ==
    IF ~o.includeRatings
    THEN Finish([o EXCEPT !.dapps = dapps, !.answer = "dapps"],
                Val(getAllDapps_transformedDapps(dapps)))
    ELSE IssueQuery([o EXCEPT !.dapps = dapps, !.answer = "dapps"],
                    <<"Failed to fetch dapps: ">>)

GetAllDappsReturned ==
    /\ op.kind = "getAllDapps"
    /\ op.pc = "call"
    /\ \E ok \in {b \in BOOLEAN : b => CallReaches(op.addr, op.runner)} :
        op' = Acts(
            IF ~ok
            THEN Finish([op EXCEPT !.answer = "failed"],
                        Err(<<"Failed to fetch dapps: ", "call failed">>))
            ELSE getAllDapps_afterCall(op, allDapps))
    /\ OpFrame

\* The reviews arrive and are joined to the records by dappId.
GetAllDappsReviewsReturned ==
    /\ op.kind = "getAllDapps"
    /\ op.pc = "query"
    /\ \E answer \in FetchAnswers :
        op' = Acts(
            IF answer # "data"
            THEN Finish([op EXCEPT !.answer = answer],
                        Err(<<"Failed to fetch dapps: ">> \o fetchGraphQL_error(answer)))
            ELSE LET reviews == IndexAt(op.endpoint) IN
                 Finish([op EXCEPT !.answer = answer, !.rows = reviews],
                        Val(getAllDapps_dappsWithRatings(
                                getAllDapps_transformedDapps(op.dapps), reviews))))
    /\ OpFrame

(***************************************************************************)
(* getProjectStats                                                         *)
(***************************************************************************)
\* reviews.filter(r => r.starRating === k).length
CountStars(reviews, k) == Len(SelectSeq(reviews, LAMBDA r : r.starRating = k))

\* The object getProjectStats builds from the reviews it fetched.
getProjectStats_result_noFive(reviews) ==
    LET totalReviews == Len(reviews) IN
    IF totalReviews = 0
    THEN [totalReviews |-> 0,
          averageRating |-> Zero,
          ratingDistribution |-> [k \in 1..4 |-> 0]]
    ELSE [totalReviews |-> totalReviews,
          averageRating |-> OrZero(Divide(SumStars(reviews), totalReviews)),
          ratingDistribution |-> [k \in 1..5 |-> CountStars(reviews, k)]]

getProjectStats_result_floor(reviews) ==
    LET totalReviews == Len(reviews) IN
    IF totalReviews = 0
    THEN [totalReviews |-> 0,
          averageRating |-> Zero,
          ratingDistribution |-> [k \in 1..5 |-> 0]]
    ELSE [totalReviews |-> totalReviews,
          averageRating |-> OrZero(Divide(SumStars(reviews) \div totalReviews, 1)),
          ratingDistribution |-> [k \in 1..5 |-> CountStars(reviews, k)]]

getProjectStats_result_noDivide(reviews) ==
    LET totalReviews == Len(reviews) IN
    IF totalReviews = 0
    THEN [totalReviews |-> 0,
          averageRating |-> Zero,
          ratingDistribution |-> [k \in 1..5 |-> 0]]
    ELSE [totalReviews |-> totalReviews,
          averageRating |-> OrZero(Divide(SumStars(reviews), 1)),
          ratingDistribution |-> [k \in 1..5 |-> CountStars(reviews, k)]]

getProjectStats_result(reviews) ==
    LET totalReviews == Len(reviews) IN
    IF totalReviews = 0
    THEN [totalReviews |-> 0,
          averageRating |-> Zero,
          ratingDistribution |-> [k \in 1..5 |-> 0]]
    ELSE [totalReviews |-> totalReviews,
          averageRating |-> OrZero(Divide(SumStars(reviews), totalReviews)),
          ratingDistribution |-> [k \in 1..5 |-> CountStars(reviews, k)]]

GetProjectStatsCall(projectId) ==
    /\ CanInvoke
    /\ op' = [NewOp("getProjectStats") EXCEPT !.id = projectId]
    /\ InvokeFrame

\* The check, then getProjectReviews(projectId), which issues its query.
GetProjectStatsStart ==
    /\ Resumes("getProjectStats")
    /\ op' = Acts(
        IF op.id = << >>
        THEN Finish(op, Err(<<"projectId must be non-empty">>))
        ELSE IssueQuery(op, <<"Failed to fetch project reviews: ">>))
    /\ OpFrame

\* getProjectReviews settles: its error passes through (getProjectStats has
\* no try block), its rows are counted.
getProjectStats_afterReviews_degrades(o, answer) ==
    LET reviews == IF answer # "data" THEN << >>
                   ELSE getProjectReviews_rows(o.endpoint, o.id)
    IN  Finish([o EXCEPT !.answer = answer, !.rows = reviews],
               Val(Defined(getProjectStats_result(reviews))))

getProjectStats_afterReviews(o, answer) ==
    IF answer # "data"
    THEN Finish([o EXCEPT !.answer = answer],
                Err(<<"Failed to fetch project reviews: ">> \o fetchGraphQL_error(answer)))
    ELSE LET reviews == getProjectReviews_rows(o.endpoint, o.id) IN
         Finish([o EXCEPT !.answer = answer, !.rows = reviews],
                Val(Defined(getProjectStats_result(reviews))))

GetProjectStatsReturned ==
    /\ op.kind = "getProjectStats"
    /\ op.pc = "query"
    /\ \E answer \in FetchAnswers : op' = Acts(getProjectStats_afterReviews(op, answer))
    /\ OpFrame

(***************************************************************************)
(* Canonicalisation on its own                                             *)
(***************************************************************************)
Canonicalize ==
    /\ cout = Undefined
    /\ cout' = Defined(dappIdBytes32Of(cop, cin))
    /\ UNCHANGED <<regIn, cin, cop, cout2, allDapps>>
    /\ UNCHANGED socket
    /\ UNCHANGED bindingVars
    /\ UNCHANGED <<op, nOps>>
    /\ UNCHANGED chainVars

CanonicalizeAgain ==
    /\ cout # Undefined
    /\ cout2 = Undefined
    /\ cout2' = Defined(dappIdBytes32Of(cop, cout[1]))
    /\ UNCHANGED <<regIn, cin, cop, cout, allDapps>>
    /\ UNCHANGED socket
    /\ UNCHANGED bindingVars
    /\ UNCHANGED <<op, nOps>>
    /\ UNCHANGED chainVars

(***************************************************************************)
(* Specifications                                                          *)
(***************************************************************************)
\* What contract.getAllDapps() returns unless a specification says otherwise.
DefaultDapps == <<[dappId |-> MyDappKey, categoryId |-> 412]>>

InitialIndex ==
    [net \in Networks |->
        IF net = 137 THEN <<[dappId |-> MyDappKey, starRating |-> 5]>> ELSE << >>]

\* new RateCaster(p0): the fields are set and initialize() has sent its
\* getNetwork() query.
ConstructedWith(p0, ratings, provider_socket) ==
    /\ provider = p0
    /\ socket = NewSocket(provider_socket)
    /\ chainConfig = Undefined
    /\ contract = Undefined
    /\ initialized = Pending
    /\ initTask = [pc |-> "getNetwork", provider |-> p0]
    /\ netCalls = 1
    /\ rebind = IdleRebind
    /\ nRebinds = 0
    /\ op = NoOp
    /\ nOps = 0
    /\ fees = InitialFees
    /\ nFeeChanges = 0
    /\ index = ratings

ConstructedOver(p0, ratings) == ConstructedWith(p0, ratings, FALSE)

Constructed(p0) == ConstructedOver(p0, InitialIndex)

Init ==
    /\ \E p0 \in Providers : Constructed(p0)
    /\ regIn = ValidReg
    /\ cin = MyDapp
    /\ cop = "submitReview"
    /\ cout = Undefined
    /\ cout2 = Undefined
    /\ allDapps = DefaultDapps

\* The binding, the getters and the reads.
Next ==
    \/ InitializeSettles
    \/ \E p \in Providers : SetProviderCall(p)
    \/ SetProviderProbed
    \/ SetProviderInitialized
    \/ GetCurrentChain
    \/ GetContractAddress
    \/ GetExplorerUrl
    \/ EnsureInitializedRejects
    \/ GetAllReviewsCall
    \/ GetAllReviewsStart
    \/ GetAllReviewsReturned
    \/ \E id \in MainIds : IsDappRegisteredCall(id)
    \/ IsDappRegisteredStart
    \/ IsDappRegisteredReturned

Spec == Init /\ [][Next]_vars

\* Every operation that takes an identifier, and the index they share.
NextIds ==
    \/ InitializeSettles
    \/ EnsureInitializedRejects
    \/ \E id \in MainIds, stars \in StarInputs : SubmitReviewCall(id, stars, {})
    \/ SubmitReviewStart
    \/ SubmitReviewSigner
    \/ SubmitReviewFee
    \/ SubmitReviewSent
    \/ \E id \in MainIds, reg \in UpdateInputs : UpdateDappCall(id, reg, {})
    \/ UpdateDappStart
    \/ UpdateDappSigner
    \/ UpdateDappSent
    \/ \E id \in MainIds : DeleteDappCall(id, {})
    \/ DeleteDappStart
    \/ DeleteDappSigner
    \/ DeleteDappSent
    \/ \E id \in MainIds, includeRatings \in BOOLEAN : GetDappCall(id, includeRatings)
    \/ GetDappStart
    \/ GetDappReturned
    \/ GetDappReviewsReturned
    \/ \E id \in MainIds : IsDappRegisteredCall(id)
    \/ IsDappRegisteredStart
    \/ IsDappRegisteredReturned
    \/ \E id \in MainIds, userIsAddress \in BOOLEAN : HasUserRatedProjectCall(userIsAddress, id)
    \/ HasUserRatedProjectStart
    \/ HasUserRatedProjectReturned
    \/ \E id \in MainIds : GetProjectRatingCountCall(id)
    \/ GetProjectRatingCountStart
    \/ GetProjectRatingCountReturned
    \/ \E id \in MainIds : GetProjectReviewsCall(id)
    \/ GetProjectReviewsStart
    \/ GetProjectReviewsReturned

SpecIds == Init /\ [][NextIds]_vars

\* The writes that attach a fee, and the owner changing the fees.
NextWrite ==
    \/ InitializeSettles
    \/ EnsureInitializedRejects
    \/ \E id \in WriteIds, stars \in WriteStars, overrides \in OverrideInputs :
        SubmitReviewCall(id, stars, overrides)
    \/ SubmitReviewStart
    \/ SubmitReviewSigner
    \/ SubmitReviewFee
    \/ SubmitReviewSent
    \/ \E overrides \in OverrideInputs : RegisterDappCall(overrides)
    \/ RegisterDappStart
    \/ RegisterDappSigner
    \/ RegisterDappFee
    \/ RegisterDappSent
    \/ \E net \in Networks, fee \in FeeInputs : AdminSetRatingFee(net, fee)
    \/ \E net \in Networks, fee \in FeeInputs : AdminSetRegistrationFee(net, fee)

SpecWrite == Init /\ [][NextWrite]_vars

\* registerDapp over the field values around its checks.
InitRegister ==
    /\ \E p0 \in Providers : Constructed(p0)
    /\ regIn \in RegInputs
    /\ cin = MyDapp
    /\ cop = "submitReview"
    /\ cout = Undefined
    /\ cout2 = Undefined
    /\ allDapps = DefaultDapps

NextRegister ==
    \/ InitializeSettles
    \/ EnsureInitializedRejects
    \/ \E overrides \in OverrideInputs : RegisterDappCall(overrides)
    \/ RegisterDappStart
    \/ RegisterDappSigner
    \/ RegisterDappFee
    \/ RegisterDappSent

SpecRegister == InitRegister /\ [][NextRegister]_vars

InitCanon ==
    /\ Constructed("p137")
    /\ regIn = ValidReg
    /\ cin \in CanonInputs
    /\ cop \in IdOps
    /\ cout = Undefined
    /\ cout2 = Undefined
    /\ allDapps = DefaultDapps

NextCanon == Canonicalize \/ CanonicalizeAgain

SpecCanon == InitCanon /\ [][NextCanon]_vars

\* getProjectStats over the rating lists an index can hold.
LowerKey == ToLower(UpperKey)

RatingInputs == [dappId : {MyDappKey, LowerKey}, starRating : {4, 5}]

RatingLists == UNION {[1..n -> RatingInputs] : n \in 0..MaxRatings}

InitStats ==
    /\ \E p0 \in Providers, ratings \in RatingLists :
        ConstructedOver(p0, [net \in Networks |-> IF net = 137 THEN ratings ELSE << >>])
    /\ regIn = ValidReg
    /\ cin = MyDapp
    /\ cop = "submitReview"
    /\ cout = Undefined
    /\ cout2 = Undefined
    /\ allDapps = DefaultDapps

NextStats ==
    \/ InitializeSettles
    \/ EnsureInitializedRejects
    \/ \E id \in MainIds : GetProjectStatsCall(id)
    \/ GetProjectStatsStart
    \/ GetProjectStatsReturned

SpecStats == InitStats /\ [][NextStats]_vars

\* The reads of registration records, over what the contract can return.
DappInputs == [dappId : {MyDappKey, LowerKey}, categoryId : ContractCategoryIds]

DappLists == UNION {[1..n -> DappInputs] : n \in 0..MaxDapps}

InitDapps ==
    /\ \E p0 \in Providers : Constructed(p0)
    /\ regIn = ValidReg
    /\ cin = MyDapp
    /\ cop = "submitReview"
    /\ cout = Undefined
    /\ cout2 = Undefined
    /\ allDapps \in DappLists

NextDapps ==
    \/ InitializeSettles
    \/ EnsureInitializedRejects
    \/ \E includeRatings \in BOOLEAN : GetAllDappsCall(includeRatings)
    \/ GetAllDappsStart
    \/ GetAllDappsReturned
    \/ GetAllDappsReviewsReturned
    \/ \E id \in MainIds, includeRatings \in BOOLEAN : GetDappCall(id, includeRatings)
    \/ GetDappStart
    \/ GetDappReturned
    \/ GetDappReviewsReturned
    \/ GetAllReviewsCall
    \/ GetAllReviewsStart
    \/ GetAllReviewsReturned
    \/ \E categoryId \in CategoryInputs : GetCategoryNameById(categoryId)
    \/ GetCategoryTree
    \/ GetCategoryOptions

SpecDapps == InitDapps /\ [][NextDapps]_vars

\* An instance with a websocket connection: subscriptions, re-binds, events.
InitListen ==
    /\ \E p0 \in {"p137", "p1"} : ConstructedWith(p0, InitialIndex, TRUE)
    /\ regIn = ValidReg
    /\ cin = MyDapp
    /\ cop = "submitReview"
    /\ cout = Undefined
    /\ cout2 = Undefined
    /\ allDapps = DefaultDapps

NextListen ==
    \/ InitializeSettles
    \/ EnsureInitializedRejects
    \/ \E p \in {"p80002", "p1"} : SetProviderCall(p)
    \/ SetProviderProbed
    \/ SetProviderInitialized
    \/ ListenToReviewsCall
    \/ ListenToReviewsStart
    \/ \E eventName \in EventNames : StopListeningCall(eventName)
    \/ StopListeningStart
    \/ \E net \in Networks : DappRatingSubmitted(CHAIN_CONFIGS[net].contractAddress)

SpecListen == InitListen /\ [][NextListen]_vars

\* The three reads that aggregate ratings, over one index and two registered
\* entities.
RegisteredDapps ==
    <<[dappId |-> MyDappKey, categoryId |-> 412], [dappId |-> LowerKey, categoryId |-> 412]>>

CanonicalIds == {MyDappKey, UpperKey}

InitAggregate ==
    /\ \E p0 \in {"p137", "p80002"}, ratings \in RatingLists :
        ConstructedOver(p0, [net \in Networks |-> IF net = 137 THEN ratings ELSE << >>])
    /\ regIn = ValidReg
    /\ cin = MyDapp
    /\ cop = "submitReview"
    /\ cout = Undefined
    /\ cout2 = Undefined
    /\ allDapps = RegisteredDapps

NextAggregate ==
    \/ InitializeSettles
    \/ GetAllDappsCall(TRUE)
    \/ GetAllDappsStart
    \/ GetAllDappsReturned
    \/ GetAllDappsReviewsReturned
    \/ \E id \in CanonicalIds : GetDappCall(id, TRUE)
    \/ GetDappStart
    \/ GetDappReturned
    \/ GetDappReviewsReturned
    \/ \E id \in CanonicalIds : GetProjectStatsCall(id)
    \/ GetProjectStatsStart
    \/ GetProjectStatsReturned

SpecAggregate == InitAggregate /\ [][NextAggregate]_vars

(***************************************************************************)
(* Properties                                                              *)
(***************************************************************************)
\* The key form, written out: 66 characters, "0x", then hex digits of either case.
IsCanonicalKey(x) ==
    /\ Len(x) = 66
    /\ x[1] = "0"
    /\ x[2] = "x"
    /\ \A i \in 3..66 : x[i] \in Digits \cup LowerHex \cup UpperHex

CanonicalKeyOf(x) == IF IsCanonicalKey(x) THEN x ELSE keccak256(toUtf8Bytes(x))

IsSubmission == op.kind \in {"submitReview", "registerDapp"}

\* C1: for a human-readable identifier x, getProjectReviews(x) returns exactly
\* the index records whose dappId is the canonical key of x, the key that
\* submitReview(x, ...) wrote under.
C1_ReviewsUnderCanonicalKey ==
    (/\ op.kind = "getProjectReviews"
     /\ op.pc = "done"
     /\ op.out.ok
     /\ ~IsCanonicalKey(op.id))
    => op.out.value =
         SelectSeq(IndexAt(op.endpoint), LAMBDA r : r.dappId = CanonicalKeyOf(op.id))

\* C2: every operation that hands an identifier to the contract hands the
\* same canonical key for the same identifier: the identifier itself when it
\* has the key form, otherwise the hash of its UTF-8 bytes.
C2_SameCanonicalKey ==
    (/\ op.kind \in IdOps
     /\ op.pc \in {"fee", "send", "call", "query"} \/ op.sent)
    => op.key = CanonicalKeyOf(op.id)

C2_HashedKeyPassed ==
    /\ op.kind \in {"updateDapp", "getDapp"}
    /\ op.pc \in {"send", "call"}
    /\ op.id = MyDapp
    /\ op.key = MyDappKey
    /\ op.key # op.id

\* C3: canonicalisation is idempotent, its result always has the key form,
\* an identifier that already has the key form comes back unchanged (the
\* case of its digits kept), and every operation computes the same key.
C3_CanonicalizeIdempotent ==
    /\ cout # Undefined =>
        /\ IsCanonicalKey(cout[1])
        /\ IsCanonicalKey(cin) => cout[1] = cin
        /\ \A kind \in IdOps : dappIdBytes32Of(kind, cin) = cout[1]
    /\ cout2 # Undefined => cout2 = cout

C3_UpperCaseKeyTwice ==
    /\ cout2 # Undefined
    /\ IsCanonicalKey(cin)
    /\ \E i \in 3..66 : cin[i] \in UpperHex
    /\ cout2[1] = cin

\* C4: once the binding failed on network identity 1, every public call
\* invoked afterwards raises an error that names 1; none returns a value.
C4_FailedBindingNamesNetwork ==
    (/\ initTask.provider = "p1"
     /\ nRebinds = 0
     /\ op.settledAtInvoke = "rejected"
     /\ op.pc = "done")
    => /\ ~op.out.ok
       /\ \E i \in 1..Len(op.out.msg) : op.out.msg[i] = "1"

\* C5: no public operation returns, raises an error of its own or issues a
\* call while the binding is being resolved.
C5_NothingWhileResolving == ~op.actedResolving

\* C6: an operation invoked after a setProvider that succeeded does not fail
\* with the failure of the binding the constructor started.
C6_RebindRestartsReadiness ==
    (/\ op.afterRebindOk
     /\ op.pc = "done"
     /\ initialized.state = "rejected")
    => op.out # Err(initialized.msg)

C8_ValueSentIsFeeRead ==
    (IsSubmission /\ op.sent)
    => HasValue(op.options) /\ ValueOf(op.options) = op.fee

C10_StartsHttp(url) ==
    \/ Len(url) >= 7 /\ SubSeq(url, 1, 7) = <<"h", "t", "t", "p", ":", "/", "/">>
    \/ Len(url) >= 8 /\ SubSeq(url, 1, 8) = <<"h", "t", "t", "p", "s", ":", "/", "/">>

C10_Invalid(reg) ==
    \/ Len(reg.name) = 0
    \/ Len(reg.name) > 100
    \/ Len(reg.description) > 1000
    \/ ~C10_StartsHttp(reg.url)
    \/ ~C10_StartsHttp(reg.imageURL)
    \/ reg.categoryId \notin DOMAIN CATEGORY_NAMES

C10_ValidationMessages ==
    {<<"Name must be non-empty and at most 100 characters">>,
     <<"Description must be at most 1000 characters">>,
     <<"URL must be a valid HTTP/HTTPS URL">>,
     <<"Image URL must be a valid HTTP/HTTPS URL">>}
    \cup {<<"Invalid category ID: ", ToString(c)>> : c \in CategoryInputs}

C11_UpdateValidatesAsRegister ==
    (/\ op.kind = "updateDapp"
     /\ op.pc # "awaitInit"
     /\ initialized.state = "fulfilled"
     /\ op.id # << >>)
    => ((op.pc = "done" /\ op.calls = 0) <=> registerDapp_validate(op.reg) # << >>)

StatsDone == op.kind = "getProjectStats" /\ op.pc = "done" /\ op.answer = "data"

\* The star values of a list of rating records, counted position by position.
StarsAt(rows, k) == Cardinality({i \in 1..Len(rows) : rows[i].starRating = k})

\* C12: when the index returns no rating record for the entity,
\* getProjectStats returns totalReviews 0, averageRating 0 and a distribution
\* with the keys 1..5 all 0, and raises no error.
C12_ZeroRecordsZeroStats ==
    (StatsDone /\ op.rows = << >>)
    => /\ op.out.ok
       /\ op.out.value # Undefined
       /\ op.out.value[1].totalReviews = 0
       /\ op.out.value[1].averageRating = [num |-> 0, den |-> 1]
       /\ DOMAIN op.out.value[1].ratingDistribution = 1..5
       /\ \A k \in 1..5 : op.out.value[1].ratingDistribution[k] = 0

C12_NoRecordsForEntity ==
    /\ StatsDone
    /\ op.rows = << >>
    /\ index[137] # << >>
    /\ op.out.ok
    /\ op.out.value[1].totalReviews = 0

IndexFailed == op.pc = "done" /\ op.answer \in {"status", "errors"}

Carries(msg, part) == \E i \in 1..Len(msg) : msg[i] = part

\* C14: when the index query fails, getAllDapps and getAllReviews return an
\* empty list instead of raising.
C14_BulkReadsDegrade ==
    (op.kind \in {"getAllDapps", "getAllReviews"} /\ IndexFailed)
    => op.out.ok /\ op.out.value = << >>

\* C15: getDapp for an identifier that is not registered returns an absent
\* value and raises no error.
C15_NotFoundIsAbsence ==
    (op.kind = "getDapp" /\ op.pc = "done" /\ op.answer = "notRegistered")
    => op.out.ok /\ op.out.value = Undefined

\* C16: a non-success status or an errors field never becomes a result: the
\* operation that queried the index ends with an error that carries the
\* status or the original messages, and one call issues one request.
C16_FetchFailureRaised ==
    /\ op.queries <= 1
    /\ op.pc = "query" => op.queries = 1
    /\ IndexFailed =>
        /\ op.queries = 1
        /\ ~op.out.ok
        /\ op.out.value = Undefined
        /\ Carries(op.out.msg, "Failed to fetch GraphQL data: ")
        /\ op.answer = "status" =>
            Carries(op.out.msg, "HTTP error! status: ") /\ Carries(op.out.msg, "500")
        /\ op.answer = "errors" =>
            Carries(op.out.msg, "GraphQL errors: ") /\ Carries(op.out.msg, "[{message}]")

C16_StatusRaised ==
    /\ op.kind = "getAllReviews"
    /\ op.pc = "done"
    /\ op.answer = "status"
    /\ op.queries = 1
    /\ op.out = Err(<<"Failed to fetch reviews: ", "Failed to fetch GraphQL data: ",
                      "HTTP error! status: ", "500">>)

\* C17: getAllDapps returns one record per registration record the contract
\* returned, in the same order and with the same dappId at each position,
\* with or without the ratings.
C17_OrderPreserved ==
    (op.kind = "getAllDapps" /\ op.pc = "done" /\ op.out.ok)
    => /\ op.dapps = allDapps
       /\ Len(op.out.value) = Len(allDapps)
       /\ \A i \in 1..Len(allDapps) :
            /\ op.out.value[i].dappId = allDapps[i].dappId
            /\ op.out.value[i].categoryId = allDapps[i].categoryId

C17_DuplicateKept ==
    /\ op.kind = "getAllDapps"
    /\ op.pc = "done"
    /\ op.out.ok
    /\ op.includeRatings
    /\ Len(allDapps) = 2
    /\ allDapps[1].dappId = allDapps[2].dappId
    /\ Len(op.out.value) = 2

\* C18: with includeRatings = false, getAllDapps and getDapp issue no index
\* query and return records without averageRating / totalReviews; no failure
\* of theirs comes from the index.
C18_NoQueryWithoutRatings ==
    (op.kind \in {"getAllDapps", "getDapp"} /\ ~op.includeRatings)
    => /\ op.queries = 0
       /\ op.pc # "query"
       /\ op.answer \notin {"status", "errors", "data"}
       /\ (op.pc = "done" /\ op.out.ok /\ op.kind = "getAllDapps") =>
            \A i \in 1..Len(op.out.value) : op.out.value[i].stats = Undefined
       /\ (op.pc = "done" /\ op.out.ok /\ op.kind = "getDapp") =>
            op.out.value[1].stats = Undefined
       /\ (op.pc = "done" /\ ~op.out.ok) =>
            ~Carries(op.out.msg, "Failed to fetch GraphQL data: ")

C18_ListedWithoutRatings ==
    /\ op.kind = "getAllDapps"
    /\ ~op.includeRatings
    /\ op.pc = "done"
    /\ op.out.ok
    /\ Len(op.out.value) >= 1
    /\ op.out.value[1].stats = Undefined
    /\ op.queries = 0

\* C19: getDapp(x, true) attaches the statistics of the record it returns:
\* totalReviews is the number of index records whose dappId is the dappId of
\* the returned record, and averageRating is their mean.
C19_StatsOfReturnedRecord ==
    (/\ op.kind = "getDapp"
     /\ op.includeRatings
     /\ op.pc = "done"
     /\ op.out.ok)
    => LET dapp == op.out.value[1]
           records == SelectSeq(IndexAt(op.endpoint), LAMBDA r : r.dappId = dapp.dappId)
       IN  /\ dapp.stats # Undefined
           /\ dapp.stats[1].totalReviews = Len(records)
           /\ dapp.stats[1].averageRating.num * Len(records)
                = SumStars(records) * dapp.stats[1].averageRating.den

\* C20: category resolution is total: an id of the table resolves to the
\* table's name, with the name of the id rounded down to the hundred as its
\* group; any other id resolves to the "Unknown" text; getAllDapps and getDapp
\* do not fail once the contract has answered with records, whatever their
\* categoryId.
C20_ResolvedCategory(n, category) ==
    IF n \in DOMAIN CATEGORY_NAMES
    THEN category[1] = CATEGORY_NAMES[n]
    ELSE category = <<"Unknown (", ToString(n), ")">>

C20_CategoryResolutionTotal ==
    /\ \A cat \in getAllCategories :
        /\ cat.name = CATEGORY_NAMES[cat.id]
        /\ cat.group = CATEGORY_NAMES[cat.id - (cat.id % 100)]
    /\ (op.kind = "getCategoryNameById" /\ op.pc = "done") =>
        /\ op.out.ok
        /\ C20_ResolvedCategory(op.reg.categoryId, op.out.value[1])
        /\ op.reg.categoryId \in DOMAIN CATEGORY_NAMES =>
            op.out.value[1] =
                <<CATEGORY_NAMES[op.reg.categoryId], " (",
                  CATEGORY_NAMES[op.reg.categoryId - (op.reg.categoryId % 100)], ")">>
    /\ (op.kind = "getAllDapps" /\ op.pc = "done" /\ op.answer \in {"dapps", "data"}) =>
        /\ op.out.ok
        /\ \A i \in 1..Len(op.out.value) :
            C20_ResolvedCategory(op.dapps[i].categoryId, op.out.value[i].category)
    /\ (op.kind = "getDapp" /\ op.pc = "done" /\ op.answer \in {"dapp", "data"}) =>
        /\ op.out.ok
        /\ C20_ResolvedCategory(op.dapps[1].categoryId, op.out.value[1].category)

C20_DexOfDeFi ==
    /\ op.kind = "getCategoryNameById"
    /\ op.pc = "done"
    /\ op.reg.categoryId = 412
    /\ op.out = Val(Defined(<<"DEX", " (", "DeFi", ")">>))

\* The categories that are not main categories, and the main category of one.
C21_SubIds == {id \in DOMAIN CATEGORY_NAMES : id % 100 # 0}

C21_MainOf(id) == id - (id % 100)

\* Where a tree lists the category id: the positions and the entries.
C21_Listed(tree, id) ==
    UNION { {<<i, c>> : c \in {x \in BagToSet(tree[i].subcategories) : x.id = id}} :
            i \in DOMAIN tree }

\* C21: getCategoryOptions holds exactly the categories of the table whose id is
\* not a multiple of 100, each once, labelled with the category's name and
\* grouped under the name of its main category; getCategoryTree lists each of
\* them exactly once, under the main category of its hundred, and no main
\* category among its own subcategories.
C21_OptionsAndTreeCoverSubcategories ==
    /\ (op.kind = "getCategoryOptions" /\ op.pc = "done") =>
        /\ op.out.ok
        /\ LET options == op.out.value[1] IN
            /\ BagCardinality(options) = Cardinality(C21_SubIds)
            /\ \A id \in C21_SubIds :
                /\ C21_MainOf(id) \in DOMAIN CATEGORY_NAMES
                /\ CopiesIn([value |-> id,
                             label |-> CATEGORY_NAMES[id],
                             group |-> CATEGORY_NAMES[C21_MainOf(id)]], options) = 1
    /\ (op.kind = "getCategoryTree" /\ op.pc = "done") =>
        /\ op.out.ok
        /\ LET tree == op.out.value[1] IN
            /\ \A id \in C21_SubIds :
                /\ Cardinality(C21_Listed(tree, id)) = 1
                /\ \A l \in C21_Listed(tree, id) :
                    /\ tree[l[1]].id = C21_MainOf(id)
                    /\ l[2].name = CATEGORY_NAMES[id]
                    /\ CopiesIn(l[2], tree[l[1]].subcategories) = 1
            /\ \A i \in DOMAIN tree :
                \A c \in BagToSet(tree[i].subcategories) :
                    /\ c.id \in C21_SubIds
                    /\ c.id # tree[i].id

\* The options have been asked for: DEX is offered under DeFi, DeFi itself is not.
C21_DexOffered ==
    /\ op.kind = "getCategoryOptions"
    /\ op.pc = "done"
    /\ BagIn([value |-> 412, label |-> "DEX", group |-> "DeFi"], op.out.value[1])
    /\ \A o \in BagToSet(op.out.value[1]) : o.value # 400

\* The binding is ready: no resolution is in flight, the constructor's has
\* succeeded and so has the last setProvider, if there was one.
BindingReady ==
    /\ ~Resolving
    /\ initialized = Fulfilled
    /\ rebind.pc = "done" => rebind.out.ok

\* C22: every entry of the network registry is stored under its own chainId,
\* and the parameters of a ready binding are the registry's entry for the
\* network its connection reports.
C22_ReadyBindingIsRegistryEntry ==
    /\ \A chainId \in DOMAIN CHAIN_CONFIGS : CHAIN_CONFIGS[chainId].chainId = chainId
    /\ BindingReady =>
        LET ans == GetNetwork(provider) IN
        /\ ans.ok
        /\ ans.network # Undefined
        /\ chainConfig = ChainConfigLookup(ans.network[1].chainId)
        /\ chainConfig # Undefined
        /\ contract # Undefined
        /\ contract[1].address = chainConfig[1].contractAddress

\* msg holds the fragments of part, in order and adjacent.
CarriesAll(msg, part) ==
    \E k \in 0..(Len(msg) - Len(part)) : \A i \in 1..Len(part) : msg[k + i] = part[i]

\* C23: in submitReview and registerDapp the submission is issued only after
\* the fee read has returned; when the signer query or the fee read fails
\* nothing is submitted and the error raised carries the failure's message; a
\* finished write holds a transaction handle or an error.
C23_WritesNeverDegrade ==
    IsSubmission =>
        /\ (op.pc = "send" \/ op.sent) => op.feeRead
        /\ op.thrownAt \in {"signer", "fee"} =>
            /\ op.pc = "done"
            /\ ~op.sent
            /\ ~op.out.ok
            /\ op.thrown # << >>
            /\ CarriesAll(op.out.msg, op.thrown)
        /\ op.pc = "done" =>
            \/ ~op.out.ok /\ op.out.msg # << >> /\ ~op.sent
            \/ op.out.ok /\ op.out.value = Defined("tx") /\ op.sent

\* A submitReview whose fee read failed.
C23_FeeReadFailed ==
    /\ op.kind = "submitReview"
    /\ op.pc = "done"
    /\ op.thrownAt = "fee"
    /\ op.out = Err(<<"Failed to submit review: ", "call failed">>)
    /\ ~op.sent

\* C26: once stopListening() has completed, and until listenToReviews
\* subscribes again, no listener made by listenToReviews is held by a websocket
\* contract and no callback runs for an event.
C26_StoppedMeansSilent ==
    socket.stopped => /\ socket.listeners = {}
                      /\ ~socket.calledAfterStop

\* C24: a contract call of a public operation goes to the address the registry
\* holds for the network of the connection it is issued over: the connection
\* and the address are those of one binding.
C24_CallWithinOneBinding ==
    (op.pc = "call" /\ op.runner \in Providers)
    => /\ NetworkOf(op.runner) \in Networks
       /\ op.addr = CHAIN_CONFIGS[NetworkOf(op.runner)].contractAddress

\* C25: when a setProvider called on a settled binding has rejected, the
\* provider, the chain parameters and the contract are those from before the
\* call.
C25_FailedRebindChangesNothing ==
    (/\ rebind.pc = "done"
     /\ ~rebind.out.ok
     /\ rebind.before.settled)
    => /\ provider = rebind.before.provider
       /\ chainConfig = rebind.before.chainConfig
       /\ contract = rebind.before.contract

\* The ratings the index of the bound network holds for a key: how many, and
\* the sum of their stars.
C27_RatingsOfKey(k) ==
    {i \in 1..Len(IndexAt(op.endpoint)) : IndexAt(op.endpoint)[i].dappId = ToLower(k)}

C27_StarSum(k) ==
    LET rows == IndexAt(op.endpoint)
        At(n) == Cardinality({i \in C27_RatingsOfKey(k) : rows[i].starRating = n})
    IN  At(1) + 2 * At(2) + 3 * At(3) + 4 * At(4) + 5 * At(5)

\* total and average are the count and the mean of the ratings of k.
C27_Aggregates(k, total, average) ==
    /\ total = Cardinality(C27_RatingsOfKey(k))
    /\ average.den > 0
    /\ average.num * Cardinality(C27_RatingsOfKey(k)) = C27_StarSum(k) * average.den
    /\ total = 0 => average.num = 0

\* C27: over one index state, the totalReviews and averageRating that
\* getAllDapps(true) attaches to the record with dappId k, those that
\* getDapp(k, true) attaches and those that getProjectStats(k) returns are the
\* count and the mean of the index's ratings of k, hence equal.
C27_AggregationPathsAgree ==
    (op.pc = "done" /\ op.out.ok /\ op.answer = "data") =>
        /\ op.kind = "getAllDapps" =>
            \A i \in 1..Len(op.out.value) :
                /\ op.out.value[i].stats # Undefined
                /\ C27_Aggregates(op.out.value[i].dappId,
                                  op.out.value[i].stats[1].totalReviews,
                                  op.out.value[i].stats[1].averageRating)
        /\ op.kind = "getDapp" =>
            /\ op.out.value[1].stats # Undefined
            /\ op.out.value[1].dappId = ToLower(op.id)
            /\ C27_Aggregates(op.id,
                              op.out.value[1].stats[1].totalReviews,
                              op.out.value[1].stats[1].averageRating)
        /\ op.kind = "getProjectStats" =>
            C27_Aggregates(op.id,
                           op.out.value[1].totalReviews,
                           op.out.value[1].averageRating)

\* getAllDapps(true) over an index that holds ratings of both entities: the
\* record of my-dapp carries its two ratings, 5 and 4.
C27_TwoOfThreeRatings ==
    /\ op.kind = "getAllDapps"
    /\ op.pc = "done"
    /\ op.out.ok
    /\ op.answer = "data"
    /\ Len(op.rows) = 3
    /\ op.out.value[1].dappId = MyDappKey
    /\ op.out.value[1].stats = Defined([totalReviews |-> 2,
                                        averageRating |-> [num |-> 9, den |-> 2]])
    /\ op.out.value[2].stats[1].totalReviews = 1

\* C28: when every record the index returned has a star value in 1..5, the
\* five counts of ratingDistribution add up to totalReviews and, for
\* totalReviews > 0, averageRating lies between 1 and 5.
C28_DistributionSumsAndMeanInRange ==
    (/\ StatsDone
     /\ op.out.ok
     /\ \A i \in 1..Len(op.rows) : op.rows[i].starRating \in 1..5)
    => LET stats == op.out.value[1]
           d == stats.ratingDistribution
       IN  /\ d[1] + d[2] + d[3] + d[4] + d[5] = stats.totalReviews
           /\ stats.totalReviews > 0 =>
                /\ stats.averageRating.den > 0
                /\ stats.averageRating.den <= stats.averageRating.num
                /\ stats.averageRating.num <= 5 * stats.averageRating.den

\* Two records, 4 and 5 stars: the mean is 9/2.
C28_FourAndFive ==
    /\ StatsDone
    /\ Len(op.rows) = 2
    /\ {op.rows[1].starRating, op.rows[2].starRating} = {4, 5}
    /\ op.out.value[1].totalReviews = 2
    /\ op.out.value[1].averageRating = [num |-> 9, den |-> 2]

\* C29: getProjectStats returns the zero statistics only when its query was
\* answered with data holding no record for the identifier; when the query
\* fails it raises an error.
C29_FailureIsNotZeroRatings ==
    (op.kind = "getProjectStats" /\ op.pc = "done") =>
        /\ op.answer \in {"status", "errors"} =>
            /\ ~op.out.ok
            /\ CarriesAll(op.out.msg, fetchGraphQL_error(op.answer))
        /\ (op.out.ok /\ op.out.value[1].totalReviews = 0) =>
            /\ op.answer = "data"
            /\ op.queries = 1
            /\ op.rows = << >>
            /\ WhereDappId(IndexAt(op.endpoint), op.id) = << >>

\* The index answered with an errors field while it holds ratings of the entity.
C29_ErrorsFieldRaised ==
    /\ op.kind = "getProjectStats"
    /\ op.pc = "done"
    /\ op.answer = "errors"
    /\ ~op.out.ok
    /\ WhereDappId(IndexAt(op.endpoint), op.id) # << >>

\* C30: an identifier comes back unchanged exactly when it is 66 characters
\* long, starts with 0x and its other 64 characters are hex digits; any other
\* string is hashed as text.
C30_KeyFormIsExact ==
    cout # Undefined =>
        /\ cout[1] = cin <=> IsCanonicalKey(cin)
        /\ ~IsCanonicalKey(cin) => cout[1] = keccak256(toUtf8Bytes(cin))

\* 64 hex digits without the prefix have been hashed.
C30_UnprefixedHexHashed ==
    /\ cout # Undefined
    /\ Len(cin) = 64
    /\ \A i \in 1..64 : cin[i] \in Digits \cup LowerHex \cup UpperHex
    /\ cout[1] # cin
    /\ cout[1] = keccak256(toUtf8Bytes(cin))

====
